---- MODULE Spec2Model ----
(***************************************************************************)
(* vimium-linux: hint labelling (hints.rs), the overlay selection session  *)
(* (overlay.rs) and the accessibility-tree discovery pass (atspi.rs).      *)
(*                                                                         *)
(* Characters are one-character strings, a Rust String is a sequence of    *)
(* characters, Option<T> is a sequence of length at most one.              *)
(***************************************************************************)
EXTENDS Integers, Sequences, FiniteSets, TLC

\* ------------------------------------------------------------------ bounds
\* Largest number of discovered elements handed to assign_hints.
MaxElems == 4
\* Largest length the input buffer is allowed to reach in the model.
MaxBuf == 3
\* Largest number of events of one dispatch batch that are still handled after
\* the exit flag has been set.
MaxTail == 2
\* Number of node keys of the freely answering accessibility tree.
MaxNodes == 3
\* Number of nodes of the chain-shaped tree (node i at depth i - 1).
ChainLen == 22
\* Number of leaf children of each of the two applications of the wide tree.
WideKids == 251
\* Largest alphabet length of the calls of the hint functions.
MaxK == 2
\* Largest number of scroll requests of one scroll session.
MaxReq == 3

\* ------------------------------------------------------------ Option<T>
None == <<>>
Some(x) == <<x>>
IsSome(o) == Len(o) = 1
Unwrap(o) == o[1]

Min(a, b) == IF a <= b THEN a ELSE b

\* ------------------------------------------------------------ characters
UpperLetters ==
  <<"A", "B", "C", "D", "E", "F", "G", "H", "I", "J", "K", "L", "M",
    "N", "O", "P", "Q", "R", "S", "T", "U", "V", "W", "X", "Y", "Z">>
LowerLetters ==
  <<"a", "b", "c", "d", "e", "f", "g", "h", "i", "j", "k", "l", "m",
    "n", "o", "p", "q", "r", "s", "t", "u", "v", "w", "x", "y", "z">>
Digits == <<"0", "1", "2", "3", "4", "5", "6", "7", "8", "9">>

Range(s) == {s[i] : i \in DOMAIN s}

\* char::to_lowercase on the characters of the model: an upper-case ASCII
\* letter becomes its lower-case form, every other character is kept.
char_to_lowercase(c) ==
  IF \E i \in DOMAIN UpperLetters : UpperLetters[i] = c
  THEN LowerLetters[CHOOSE i \in DOMAIN UpperLetters : UpperLetters[i] = c]
  ELSE c

\* str::to_lowercase
to_lowercase(s) == [i \in 1..Len(s) |-> char_to_lowercase(s[i])]

\* str::starts_with
starts_with(s, prefix) ==
  /\ Len(prefix) <= Len(s)
  /\ SubSeq(s, 1, Len(prefix)) = prefix

\* ------------------------------------------------------------ hints.rs
DEFAULT_HINT_CHARS ==
  <<"a", "s", "d", "f", "g", "h", "j", "k", "l", "q", "w", "e", "r",
    "t", "y", "u", "i", "o", "p", "z", "x", "c", "v", "b", "n", "m">>

\* The first n items of s (a loop that pushes until n are there or s ends).
Take(s, n) == SubSeq(s, 1, Min(n, Len(s)))

\* Mutant: the first pass walks the alphabet backwards.
SingleHints_reversed(hint_chars) ==
  [i \in 1..Len(hint_chars) |-> <<hint_chars[Len(hint_chars) + 1 - i]>>]

\* Mutant: the second pass leaves out the labels that repeat a character.
DoubleHints_no_repeat(hint_chars) ==
  LET k == Len(hint_chars)
      all == [n \in 1..(k * k) |->
                <<hint_chars[((n - 1) \div k) + 1], hint_chars[((n - 1) % k) + 1]>>]
      Differ(h) == h[1] # h[2]
  IN SelectSeq(all, Differ)

\* Mutant: the second pass has its loops exchanged.
DoubleHints_column_major(hint_chars) ==
  LET k == Len(hint_chars) IN
  [n \in 1..(k * k) |->
     <<hint_chars[((n - 1) % k) + 1], hint_chars[((n - 1) \div k) + 1]>>]

\* All one-, two- and three-character labels in the order the nested loops
\* of generate_hints visit them.
SingleHints(hint_chars) ==
  [i \in 1..Len(hint_chars) |-> <<hint_chars[i]>>]
DoubleHints(hint_chars) ==
  LET k == Len(hint_chars) IN
  [n \in 1..(k * k) |->
     <<hint_chars[((n - 1) \div k) + 1], hint_chars[((n - 1) % k) + 1]>>]
TripleHints(hint_chars) ==
  LET k == Len(hint_chars) IN
  [n \in 1..(k * k * k) |->
     <<hint_chars[((n - 1) \div (k * k)) + 1],
       hint_chars[(((n - 1) \div k) % k) + 1],
       hint_chars[((n - 1) % k) + 1]>>]

\* Mutant: there is no pass of three-character labels.
generate_hints_two_passes(count, chars) ==
  IF count = 0 THEN <<>>
  ELSE IF Len(chars) = 0 THEN <<>>
  ELSE
    LET first  == Take(SingleHints(chars), count)
        second == IF Len(first) < count
                  THEN first \o Take(DoubleHints(chars), count - Len(first))
                  ELSE first
    IN second

\* Mutant: no early return, and the first pass tests the length after it
\* has pushed.
generate_hints_push_then_test(count, chars) ==
  LET first  == Take(SingleHints(chars), IF count = 0 THEN 1 ELSE count)
      second == IF Len(first) < count
                THEN first \o Take(DoubleHints(chars), count - Len(first))
                ELSE first
      third  == IF Len(second) < count
                THEN second \o Take(TripleHints(chars), count - Len(second))
                ELSE second
  IN third

generate_hints(count, chars) ==
  IF count = 0 THEN <<>>
  ELSE IF Len(chars) = 0 THEN <<>>
  ELSE
    LET first  == Take(SingleHints(chars), count)
        second == IF Len(first) < count
                  THEN first \o Take(DoubleHints(chars), count - Len(first))
                  ELSE first
        third  == IF Len(second) < count
                  THEN second \o Take(TripleHints(chars), count - Len(second))
                  ELSE second
    IN third

\* Mutant: the configured characters are not used.
assign_hints_default_always(elems, chars0) ==
  LET hints == generate_hints(Len(elems), DEFAULT_HINT_CHARS)
  IN [i \in 1..Min(Len(elems), Len(hints)) |->
        [hint |-> hints[i], element |-> elems[i]]]

\* Mutant: an empty alphabet is used as it is.
assign_hints_no_fallback(elems, chars0) ==
  LET hints == generate_hints(Len(elems), chars0)
  IN [i \in 1..Min(Len(elems), Len(hints)) |->
        [hint |-> hints[i], element |-> elems[i]]]

\* A HintedElement is [hint |-> label, element |-> e].
assign_hints(elems, chars0) ==
  LET chars == IF Len(chars0) = 0 THEN DEFAULT_HINT_CHARS ELSE chars0
      hints == generate_hints(Len(elems), chars)
  IN [i \in 1..Min(Len(elems), Len(hints)) |->
        [hint |-> hints[i], element |-> elems[i]]]

\* Mutant: the prefix is compared as typed.
filter_by_prefix_case_sensitive(elems, prefix) ==
  LET Keep(e) == starts_with(e.hint, prefix)
  IN SelectSeq(elems, Keep)

filter_by_prefix(elems, prefix) ==
  LET prefix_lower == to_lowercase(prefix)
      Keep(e) == starts_with(e.hint, prefix_lower)
  IN SelectSeq(elems, Keep)

\* Mutant: a sole match is returned whether or not its label equals the prefix.
find_exact_match_prefix_only(elems, prefix) ==
  LET matches == filter_by_prefix(elems, prefix) IN
  IF Len(matches) = 1 THEN Some(matches[1]) ELSE None

find_exact_match(elems, prefix) ==
  LET matches == filter_by_prefix(elems, prefix) IN
  IF Len(matches) = 1 /\ matches[1].hint = to_lowercase(prefix)
  THEN Some(matches[1])
  ELSE None

\* Mutant: the first match is taken when several labels match.
find_unique_match_first(elems, prefix) ==
  LET matches == filter_by_prefix(elems, prefix) IN
  IF Len(matches) >= 1 THEN Some(matches[1]) ELSE None

\* Mutant: a sole match is returned only when its label equals the prefix.
find_unique_match_equal_only(elems, prefix) ==
  LET matches == filter_by_prefix(elems, prefix) IN
  IF Len(matches) = 1 /\ matches[1].hint = to_lowercase(prefix)
  THEN Some(matches[1])
  ELSE None

find_unique_match(elems, prefix) ==
  LET matches == filter_by_prefix(elems, prefix) IN
  IF Len(matches) = 1 THEN Some(matches[1]) ELSE None

\* ------------------------------------------------------------ overlay.rs
\* Keysym values the model delivers. "A" is the upper-case keysym XK_A.
Keysyms == {"a", "b", "A", "Escape", "BackSpace", "Return"}

DigitKeysyms == <<"_0", "_1", "_2", "_3", "_4", "_5", "_6", "_7", "_8", "_9">>

keysym_to_char(key) ==
  IF key \in Range(LowerLetters) THEN Some(key)
  ELSE IF key \in Range(DigitKeysyms)
  THEN Some(Digits[CHOOSE i \in DOMAIN DigitKeysyms : DigitKeysyms[i] = key])
  ELSE IF key = "semicolon" THEN Some(";")
  ELSE None

\* config.hints.chars values of the model ("" selects DEFAULT_HINT_CHARS).
Alphabets == {<<>>, <<"a">>, <<"a", "b">>}

\* The flags of a Modifiers snapshot the overlay reads.
ModifierStates == [shift : BOOLEAN, ctrl : BOOLEAN]
ModifiersDefault == [shift |-> FALSE, ctrl |-> FALSE]

\* SelectionResult
Selected(elem, action) == [tag |-> "Selected", elem |-> elem, action |-> action]
Cancelled == [tag |-> "Cancelled"]

VARIABLES
  elements,      \* OverlayState.elements: Vec<HintedElement>
  auto_select,   \* config.behavior.auto_select
  input_buffer,  \* OverlayState.input_buffer
  modifiers,     \* OverlayState.modifiers
  result,        \* OverlayState.result: Option<SelectionResult>
  exit,          \* OverlayState.exit
  pc,            \* position of run_overlay: "loop", "dispatch", "done"
  ret,           \* what run_overlay returned: Option<Result<SelectionResult>>
  tail,          \* events handled since exit was set (bounded by MaxTail)
  last,          \* history: the last event handled
  first          \* history: the first outcome written into the result cell

\* ------------------------------------------------------------ atspi.rs
MAX_DEPTH == 20
MAX_ELEMENTS == 500

ActionableRoles ==
  {"PushButton", "ToggleButton", "RadioButton", "CheckBox", "MenuItem", "Link",
   "Entry", "PasswordText", "ComboBox", "PageTab", "ListItem", "TreeItem",
   "Icon", "SpinButton", "Slider", "TableCell"}
ScrollableRoles ==
  {"ScrollPane", "Viewport", "Panel", "Filler", "DocumentFrame", "DocumentWeb",
   "Application", "Frame", "ScrollBar"}
TextInputRoles ==
  {"Entry", "PasswordText", "SpinButton", "ComboBox", "Terminal"}

is_actionable_role(role) == role \in ActionableRoles
\* Mutant: fillers are not taken for scrollable containers.
is_scrollable_role_no_filler(role) == role \in ScrollableRoles \ {"Filler"}
is_scrollable_role(role) == role \in ScrollableRoles
is_text_input_role(role) == role \in TextInputRoles

\* The closure collect_elements is called with: get_clickable_elements,
\* get_scrollable_elements, get_text_elements.
RoleFilters == {"clickable", "scrollable", "text"}
ApplyFilter(f, role) ==
  CASE f = "clickable"  -> is_actionable_role(role)
    [] f = "scrollable" -> is_scrollable_role(role)
    [] f = "text"       -> is_text_input_role(role)

\* The accessibility trees of the model. In "free" every query is answered
\* at the time it is asked, with a failure or with any value over MaxNodes
\* node keys; "chain" and "wide" are fixed trees that reach the depth and
\* the size bound; "shortcut" is the chain whose first node also lists the
\* node the chain reaches at depth 20. "flat" (the tree run_click_mode is
\* given) has up to two applications without children, every query being
\* answered freely.
Worlds == {"free", "chain", "wide", "shortcut"}

NodesOf(w) ==
  CASE w = "free"  -> 1..MaxNodes
    [] w = "flat"  -> {1, 2}
    [] w = "chain" -> 1..ChainLen
    [] w = "shortcut" -> 1..ChainLen
    [] w = "wide"  -> 1..(2 + 2 * WideKids)

Box(x, y, w, h) == [x |-> x, y |-> y, width |-> w, height |-> h]
Boxes ==
  {Box(0, 0, 2999, 1999), Box(-1, 0, 1, 1), Box(0, -1, 1, 1),
   Box(0, 0, 0, 1), Box(0, 0, 1, 0), Box(0, 0, 3000, 1), Box(0, 0, 1, 2000)}

\* The node after n, the first one after the last.
NextNode(n) == IF n < MaxNodes THEN n + 1 ELSE 1

\* Child lists a node of the free tree may answer with: a leaf, a self
\* loop, one child, a back edge and a child, the same child twice.
KidLists(n) ==
  {<<>>, <<n>>, <<NextNode(n)>>, <<1, NextNode(n)>>, <<NextNode(n), NextNode(n)>>}

\* registry.get_children(): Err (None) or the application references.
RegistryAnswers(w) ==
  CASE w = "free"  -> {None, Some(<<>>), Some(<<1>>), Some(<<1, 1>>), Some(<<1, NextNode(1)>>)}
    [] w = "flat"  -> {None, Some(<<>>), Some(<<1>>), Some(<<1, 2>>)}
    [] w = "chain" -> {Some(<<1>>)}
    [] w = "shortcut" -> {Some(<<1>>)}
    [] w = "wide"  -> {Some(<<1, 2>>)}

\* proxy.get_role(): Err (None) or a role.
RoleAnswers(w, n) ==
  IF w = "free" THEN {None, Some("PushButton"), Some("Panel")}
  ELSE IF w = "flat" THEN {None, Some("PushButton"), Some("Link"), Some("Panel")}
  ELSE {Some("PushButton")}

\* component.get_extents(): Err (None) or a box.
ExtentsAnswers(w, n) ==
  IF w = "free" THEN {None} \cup {Some(b) : b \in Boxes}
  ELSE IF w = "flat" THEN {None, Some(Box(0, 0, 3000, 1)), Some(Box(10 * n, 20, 30, 41))}
  ELSE {Some(Box(n, 0, 1, 1))}

\* proxy.get_children(): Err (None) or the child references.
ChildrenAnswers(w, n) ==
  CASE w = "free"  -> {None} \cup {Some(c) : c \in KidLists(n)}
    [] w = "flat"  -> {None, Some(<<>>)}
    [] w = "chain" -> {Some(<<IF n < ChainLen THEN n + 1 ELSE 1>>)}
    [] w = "shortcut" ->
         {Some(IF n = 1 THEN <<2, MAX_DEPTH + 1>>
               ELSE IF n < ChainLen THEN <<n + 1>>
               ELSE <<>>)}
    [] w = "wide"  ->
         {Some(IF n = 1 THEN [i \in 1..WideKids |-> 2 + i]
               ELSE IF n = 2 THEN [i \in 1..WideKids |-> 2 + WideKids + i]
               ELSE <<>>)}

VARIABLES
  world,         \* the accessibility tree being walked
  role_filter,   \* the role predicate collect_elements was given
  cpc,           \* position of collect_elements
  apps,          \* application references the for loop has still to take
  stack,         \* the nested calls of collect_from_accessible, innermost last
  found,         \* collect_elements: elements (Vec<ClickableElement>)
  visited,       \* collect_elements: visited (HashSet of keys)
  cret,          \* what collect_elements returned
  asked,         \* history: per node key, the queries issued and their answers
  clast          \* history: the last step of the pass

cvars == <<world, role_filter, cpc, apps, stack, found, visited, cret, asked, clast>>

svars == <<elements, auto_select, input_buffer, modifiers, result, exit,
           pc, ret, tail, last, first>>

VARIABLES
  mpc,             \* position of run_click_mode
  action,          \* run_click_mode: action (the invoked mode's ActionMode)
  filter,          \* run_click_mode: filter (Option<&str>)
  hint_chars,      \* config.hints.chars
  mode_elements,   \* run_click_mode: elements
  hinted_elements, \* run_click_mode: hinted_elements
  mode_result,     \* run_click_mode: what show_and_select returned
  dispatched,      \* the injection calls made, in order
  reported,        \* "No clickable elements found" was printed
  mode_ret         \* what run_click_mode returned

mvars == <<mpc, action, filter, hint_chars, mode_elements, hinted_elements,
           mode_result, dispatched, reported, mode_ret>>

VARIABLES
  call,            \* the function of hints.rs or atspi.rs applied, with its arguments
  out              \* what it returned

pvars == <<call, out>>

VARIABLES
  inj,             \* the injection function called, with its button or direction
  hyprland,        \* HYPRLAND_INSTANCE_SIGNATURE is set (is_hyprland)
  inj_pc,          \* position of the function: "entry", the method tried next, "done"
  tried,           \* history: the methods tried, in order, each with its outcome
  inj_ret          \* what the function returned

ivars == <<inj, hyprland, inj_pc, tried, inj_ret>>

VARIABLES
  target,          \* ScrollState.target_x, target_y
  steps,           \* ScrollState.scroll_step, page_step
  scroll_modifiers, \* ScrollState.modifiers
  scroll_exit,     \* ScrollState.exit
  scroll_pc,       \* position of run_scroll_overlay: "loop", "dispatch", "done"
  scroll_ret,      \* what run_scroll_overlay returned
  requests,        \* history: the number of calls of scroll_at made
  scroll_tail,     \* events handled since exit was set (bounded by MaxTail)
  scroll_last      \* history: the last event handled, with its call of scroll_at

wvars == <<target, steps, scroll_modifiers, scroll_exit, scroll_pc, scroll_ret,
           requests, scroll_tail, scroll_last>>

vars == <<elements, auto_select, input_buffer, modifiers, result, exit,
          pc, ret, tail, last, first,
          world, role_filter, cpc, apps, stack, found, visited, cret, asked, clast,
          mpc, action, filter, hint_chars, mode_elements, hinted_elements,
          mode_result, dispatched, reported, mode_ret,
          call, out,
          inj, hyprland, inj_pc, tried, inj_ret,
          target, steps, scroll_modifiers, scroll_exit, scroll_pc, scroll_ret,
          requests, scroll_tail, scroll_last>>

\* No mode function is modelled.
ModeIdle ==
  /\ mpc = "idle"
  /\ action = "Click"
  /\ filter = None
  /\ hint_chars = <<>>
  /\ mode_elements = <<>>
  /\ hinted_elements = <<>>
  /\ mode_result = None
  /\ dispatched = <<>>
  /\ reported = FALSE
  /\ mode_ret = None

\* No function is applied on its own.
CallIdle ==
  /\ call = [fn |-> "none"]
  /\ out = <<>>

\* No injection function is called.
InjectIdle ==
  /\ inj = [fn |-> "none"]
  /\ hyprland = FALSE
  /\ inj_pc = "idle"
  /\ tried = <<>>
  /\ inj_ret = None

\* No scroll session is modelled.
ScrollIdle ==
  /\ target = <<0, 0>>
  /\ steps = [scroll_step |-> 50, page_step |-> 500]
  /\ scroll_modifiers = ModifiersDefault
  /\ scroll_exit = FALSE
  /\ scroll_pc = "idle"
  /\ scroll_ret = None
  /\ requests = 0
  /\ scroll_tail = 0
  /\ scroll_last = [kind |-> "idle", key |-> "", scrolled |-> None]

\* No discovery pass is modelled next to the selection session.
CollectorIdle ==
  /\ world = "free"
  /\ role_filter = "clickable"
  /\ cpc = "idle"
  /\ apps = <<>>
  /\ stack = <<>>
  /\ found = <<>>
  /\ visited = {}
  /\ cret = None
  /\ asked = <<>>
  /\ clast = [kind |-> "idle"]

\* Result<SelectionResult>
Ok(r) == [tag |-> "Ok", value |-> r]
Err(msg) == [tag |-> "Err", msg |-> msg]

Event(kind, key) == [kind |-> kind, key |-> key]

\* State at line 110-115 of run_overlay: the hinted elements of a non-empty
\* element list (run_click_mode returns before the overlay on an empty one),
\* empty buffer, no result, default modifiers.
Init ==
  /\ \E n \in 1..MaxElems, chars \in Alphabets :
       elements = assign_hints([i \in 1..n |-> i], chars)
  /\ auto_select \in BOOLEAN
  /\ input_buffer = <<>>
  /\ modifiers = ModifiersDefault
  /\ result = None
  /\ exit = FALSE
  /\ pc = "loop"
  /\ ret = None
  /\ tail = 0
  /\ last = Event("init", "")
  /\ first = None
  /\ CollectorIdle
  /\ ModeIdle
  /\ CallIdle
  /\ InjectIdle
  /\ ScrollIdle

\* Mutant helper: the override a snapshot m would give.
OverrideOfMutant(m) ==
  IF m.shift THEN Some("RightClick")
  ELSE IF m.ctrl THEN Some("MiddleClick")
  ELSE None

\* Mutant: control is looked at before shift.
get_action_from_modifiers_ctrl_first ==
  IF modifiers.ctrl THEN Some("MiddleClick")
  ELSE IF modifiers.shift THEN Some("RightClick")
  ELSE None

get_action_from_modifiers ==
  IF modifiers.shift THEN Some("RightClick")
  ELSE IF modifiers.ctrl THEN Some("MiddleClick")
  ELSE None

select_element(elem) ==
  /\ result' = Some(Selected(elem, get_action_from_modifiers))
  /\ exit' = TRUE

\* Mutant: Return selects on an exact match only.
ReturnSelected_exact_only == find_exact_match(elements, input_buffer)

\* Mutant: Return takes the first of several matching elements.
ReturnSelected_first_match ==
  LET exact == find_exact_match(elements, input_buffer) IN
  IF IsSome(exact) THEN exact ELSE find_unique_match_first(elements, input_buffer)

\* The element the Return arm selects, if any.
ReturnSelected ==
  LET exact == find_exact_match(elements, input_buffer) IN
  IF IsSome(exact) THEN exact ELSE find_unique_match(elements, input_buffer)

\* String::pop
Pop(s) == IF Len(s) = 0 THEN s ELSE SubSeq(s, 1, Len(s) - 1)

\* handle_key, Keysym::Escape arm
HandleEscape ==
  /\ result' = Some(Cancelled)
  /\ exit' = TRUE
  /\ UNCHANGED input_buffer

\* Mutant: a backspace that leaves a single matching label selects it.
HandleBackSpace_selects ==
  /\ input_buffer' = Pop(input_buffer)
  /\ LET selected == find_unique_match(elements, input_buffer') IN
     IF IsSome(selected)
     THEN result' = Some(Selected(Unwrap(selected), None)) /\ exit' = TRUE
     ELSE UNCHANGED <<result, exit>>

\* handle_key, Keysym::BackSpace arm
HandleBackSpace ==
  /\ input_buffer' = Pop(input_buffer)
  /\ UNCHANGED <<result, exit>>

\* handle_key, Keysym::Return arm
HandleReturn ==
  /\ IF IsSome(ReturnSelected)
     THEN select_element(Unwrap(ReturnSelected))
     ELSE UNCHANGED <<result, exit>>
  /\ UNCHANGED input_buffer

\* Mutant: the auto_select flag is not read.
HandleOther_ignores_flag(key) ==
  IF IsSome(keysym_to_char(key))
  THEN /\ input_buffer' = Append(input_buffer, Unwrap(keysym_to_char(key)))
       /\ LET selected == find_exact_match(elements, input_buffer') IN
          IF IsSome(selected)
          THEN select_element(Unwrap(selected))
          ELSE UNCHANGED <<result, exit>>
  ELSE UNCHANGED <<input_buffer, result, exit>>

\* Mutant: a character is appended and nothing is selected.
HandleOther_appends_only(key) ==
  IF IsSome(keysym_to_char(key))
  THEN /\ input_buffer' = Append(input_buffer, Unwrap(keysym_to_char(key)))
       /\ UNCHANGED <<result, exit>>
  ELSE UNCHANGED <<input_buffer, result, exit>>

\* handle_key, the arm of every other keysym
HandleOther(key) ==
  IF IsSome(keysym_to_char(key))
  THEN /\ input_buffer' = Append(input_buffer, Unwrap(keysym_to_char(key)))
       /\ IF auto_select
          THEN LET selected == find_exact_match(elements, input_buffer') IN
               IF IsSome(selected)
               THEN select_element(Unwrap(selected))
               ELSE UNCHANGED <<result, exit>>
          ELSE UNCHANGED <<result, exit>>
  ELSE UNCHANGED <<input_buffer, result, exit>>

handle_key(key) ==
  CASE key = "Escape" -> HandleEscape
    [] key = "BackSpace" -> HandleBackSpace
    [] key = "Return" -> HandleReturn
    [] OTHER -> HandleOther(key)

\* The first outcome written into the result cell.
RecordFirst ==
  first' = IF first = None THEN result' ELSE first

\* run_overlay, line 115: the loop is entered while exit is false;
\* blocking_dispatch then runs the handler of every queued event in turn.
blocking_dispatch ==
  /\ pc = "loop"
  /\ ~exit
  /\ pc' = "dispatch"
  /\ UNCHANGED <<elements, auto_select, input_buffer, modifiers, result, exit,
                 ret, tail, last, first>>
  /\ UNCHANGED <<cvars, mvars, pvars, ivars, wvars>>

\* An event handler runs: events queued behind the one that set exit are
\* still handled, the loop condition being read only between batches.
Handled ==
  /\ pc = "dispatch"
  /\ exit => tail < MaxTail
  /\ tail' = IF exit THEN tail + 1 ELSE tail
  /\ UNCHANGED <<cvars, mvars, pvars, ivars, wvars>>

\* KeyboardHandler::press_key (draw changes nothing the session reads).
press_key(key) ==
  /\ Handled
  /\ IsSome(keysym_to_char(key)) => Len(input_buffer) < MaxBuf
  /\ handle_key(key)
  /\ last' = Event("press_key", key)
  /\ RecordFirst
  /\ UNCHANGED <<elements, auto_select, modifiers, pc, ret>>

\* Mutant: a modifier update also confirms a buffer with a single match.
update_modifiers_confirms(m) ==
  /\ Handled
  /\ modifiers' = m
  /\ IF IsSome(find_unique_match(elements, input_buffer))
     THEN /\ result' = Some(Selected(Unwrap(find_unique_match(elements, input_buffer)),
                                     OverrideOfMutant(m)))
          /\ exit' = TRUE
     ELSE UNCHANGED <<result, exit>>
  /\ last' = Event("update_modifiers", "")
  /\ first' = IF first = None THEN result' ELSE first
  /\ UNCHANGED <<elements, auto_select, input_buffer, pc, ret>>

\* KeyboardHandler::update_modifiers
update_modifiers(m) ==
  /\ Handled
  /\ modifiers' = m
  /\ last' = Event("update_modifiers", "")
  /\ UNCHANGED <<elements, auto_select, input_buffer, result, exit, pc, ret, first>>

\* LayerShellHandler::closed
closed ==
  /\ Handled
  /\ exit' = TRUE
  /\ last' = Event("closed", "")
  /\ UNCHANGED <<elements, auto_select, input_buffer, modifiers, result, pc, ret, first>>

\* blocking_dispatch returns Ok: back to the loop condition.
dispatch_returns ==
  /\ pc = "dispatch"
  /\ pc' = "loop"
  /\ UNCHANGED <<elements, auto_select, input_buffer, modifiers, result, exit,
                 ret, tail, last, first>>
  /\ UNCHANGED <<cvars, mvars, pvars, ivars, wvars>>

\* blocking_dispatch returns Err: run_overlay returns it (line 118).
dispatch_fails ==
  /\ pc = "dispatch"
  /\ pc' = "done"
  /\ ret' = Some(Err("Wayland dispatch failed"))
  /\ UNCHANGED <<elements, auto_select, input_buffer, modifiers, result, exit,
                 tail, last, first>>
  /\ UNCHANGED <<cvars, mvars, pvars, ivars, wvars>>

\* run_overlay, line 121: the loop has ended.
run_overlay_returns ==
  /\ pc = "loop"
  /\ exit
  /\ pc' = "done"
  /\ ret' = Some(IF result = None THEN Err("No result") ELSE Ok(Unwrap(result)))
  /\ UNCHANGED <<elements, auto_select, input_buffer, modifiers, result, exit,
                 tail, last, first>>
  /\ UNCHANGED <<cvars, mvars, pvars, ivars, wvars>>

\* show_and_select: what the caller receives from a returned run_overlay.
show_and_select(r) ==
  IF r.tag = "Err" THEN r
  ELSE IF r.value.tag = "Selected"
  THEN Ok(Some(<<r.value.elem, r.value.action>>))
  ELSE Ok(None)

Next ==
  \/ blocking_dispatch
  \/ \E key \in Keysyms : press_key(key)
  \/ \E m \in ModifierStates : update_modifiers(m)
  \/ closed
  \/ dispatch_returns
  \/ dispatch_fails
  \/ run_overlay_returns

Spec == Init /\ [][Next]_vars

\* ------------------------------------------------- atspi.rs: discovery pass
\* No selection session is modelled next to the discovery pass.
SessionIdle ==
  /\ elements = <<>>
  /\ auto_select = FALSE
  /\ input_buffer = <<>>
  /\ modifiers = ModifiersDefault
  /\ result = None
  /\ exit = FALSE
  /\ pc = "idle"
  /\ ret = None
  /\ tail = 0
  /\ last = Event("idle", "")
  /\ first = None

NotAsked ==
  [role |-> 0, extents |-> 0, children |-> 0, emitted |-> 0,
   role_ok |-> FALSE, depth |-> 0, kids |-> <<>>]

\* collect_elements after line 148: nothing found, nothing visited.
CollectInit ==
  /\ world \in Worlds
  /\ role_filter \in (IF world = "free" THEN RoleFilters ELSE {"clickable"})
  /\ cpc = "connect"
  /\ apps = <<>>
  /\ stack = <<>>
  /\ found = <<>>
  /\ visited = {}
  /\ cret = None
  /\ asked = [n \in NodesOf(world) |-> NotAsked]
  /\ clast = [kind |-> "init"]
  /\ SessionIdle
  /\ ModeIdle
  /\ CallIdle
  /\ InjectIdle
  /\ ScrollIdle

\* One call of collect_from_accessible: its arguments and where it stands.
Frame(key, depth) ==
  [key |-> key, depth |-> depth, pc |-> "entry", role |-> "", children |-> <<>>]

Top == stack[Len(stack)]
PopFrame == SubSeq(stack, 1, Len(stack) - 1)
SetTop(f) == [stack EXCEPT ![Len(stack)] = f]
At(p) == cpc = "apps" /\ stack # <<>> /\ Top.pc = p

\* collect_elements, lines 143-156: the bus connection and the registry proxy.
connect ==
  /\ cpc = "connect"
  /\ \/ /\ cpc' = "registry"
        /\ cret' = cret
     \/ /\ cpc' = "done"
        /\ cret' = Some(Err("Failed to connect to accessibility bus"))
  /\ clast' = [kind |-> "connect"]
  /\ UNCHANGED <<world, role_filter, apps, stack, found, visited, asked>>
  /\ UNCHANGED <<svars, mvars, pvars, ivars, wvars>>

\* collect_elements, lines 159-165: registry.get_children().
registry_get_children ==
  /\ cpc = "registry"
  /\ \E ans \in RegistryAnswers(world) :
       IF IsSome(ans)
       THEN /\ cpc' = "apps"
            /\ apps' = Unwrap(ans)
            /\ cret' = cret
       ELSE /\ cpc' = "done"
            /\ cret' = Some(Ok(found))
            /\ apps' = apps
  /\ clast' = [kind |-> "registry"]
  /\ UNCHANGED <<world, role_filter, stack, found, visited, asked>>
  /\ UNCHANGED <<svars, mvars, pvars, ivars, wvars>>

\* collect_elements, lines 170-187: the next application, or the return.
collect_elements_loop ==
  /\ cpc = "apps"
  /\ stack = <<>>
  /\ IF apps = <<>>
     THEN /\ cpc' = "done"
          /\ cret' = Some(Ok(found))
          /\ UNCHANGED <<apps, stack>>
     ELSE /\ stack' = <<Frame(Head(apps), 0)>>
          /\ apps' = Tail(apps)
          /\ UNCHANGED <<cpc, cret>>
  /\ clast' = [kind |-> "app"]
  /\ UNCHANGED <<world, role_filter, found, visited, asked>>
  /\ UNCHANGED <<svars, mvars, pvars, ivars, wvars>>

\* Mutant: the depth bound stops one level early.
BoundsReached_depth_early(depth, n_elements) ==
  depth >= MAX_DEPTH \/ n_elements >= MAX_ELEMENTS

\* Mutant: the size bound stops one element late.
BoundsReached_count_late(depth, n_elements) ==
  depth > MAX_DEPTH \/ n_elements > MAX_ELEMENTS

\* Line 205.
BoundsReached(depth, n_elements) ==
  depth > MAX_DEPTH \/ n_elements >= MAX_ELEMENTS

\* Mutant: the visited set is not consulted.
AlreadyVisited_never(key) == FALSE

\* Line 210.
AlreadyVisited(key) == key \in visited

\* Mutant: the key is marked visited before the bounds are looked at.
cfa_entry_marks_first ==
  /\ At("entry")
  /\ IF Top.key \in visited
     THEN /\ stack' = PopFrame
          /\ clast' = [kind |-> "entry", key |-> Top.key, outcome |-> "visited"]
          /\ UNCHANGED <<visited, asked>>
     ELSE IF Top.depth > MAX_DEPTH \/ Len(found) >= MAX_ELEMENTS
     THEN /\ visited' = visited \cup {Top.key}
          /\ stack' = PopFrame
          /\ clast' = [kind |-> "entry", key |-> Top.key, outcome |-> "bounds"]
          /\ UNCHANGED asked
     ELSE /\ visited' = visited \cup {Top.key}
          /\ stack' = SetTop([Top EXCEPT !.pc = "proxy"])
          /\ asked' = [asked EXCEPT ![Top.key].depth = Top.depth]
          /\ clast' = [kind |-> "entry", key |-> Top.key, outcome |-> "visit"]
  /\ UNCHANGED <<world, role_filter, cpc, apps, found, cret>>
  /\ UNCHANGED <<svars, mvars, pvars, ivars, wvars>>

\* collect_from_accessible, lines 205-213: bounds, visited set.
cfa_entry ==
  /\ At("entry")
  /\ IF BoundsReached(Top.depth, Len(found))
     THEN /\ stack' = PopFrame
          /\ clast' = [kind |-> "entry", key |-> Top.key, outcome |-> "bounds"]
          /\ UNCHANGED <<visited, asked>>
     ELSE IF AlreadyVisited(Top.key)
     THEN /\ stack' = PopFrame
          /\ clast' = [kind |-> "entry", key |-> Top.key, outcome |-> "visited"]
          /\ UNCHANGED <<visited, asked>>
     ELSE /\ visited' = visited \cup {Top.key}
          /\ stack' = SetTop([Top EXCEPT !.pc = "proxy"])
          /\ asked' = [asked EXCEPT ![Top.key].depth = Top.depth]
          /\ clast' = [kind |-> "entry", key |-> Top.key, outcome |-> "visit"]
  /\ UNCHANGED <<world, role_filter, cpc, apps, found, cret>>
  /\ UNCHANGED <<svars, mvars, pvars, ivars, wvars>>

\* Whether building the AccessibleProxy can fail in this tree.
ProxyAnswers(w) == IF w \in {"free", "flat"} THEN BOOLEAN ELSE {TRUE}

\* collect_from_accessible, lines 216-225: the proxy of the node.
cfa_build_proxy ==
  /\ At("proxy")
  /\ \E ok \in ProxyAnswers(world) :
       /\ stack' = IF ok THEN SetTop([Top EXCEPT !.pc = "role"]) ELSE PopFrame
       /\ clast' = [kind |-> "proxy", key |-> Top.key, ok |-> ok]
  /\ UNCHANGED <<world, role_filter, cpc, apps, found, visited, cret, asked>>
  /\ UNCHANGED <<svars, mvars, pvars, ivars, wvars>>

\* Mutant: a failed role query only skips the node's own element.
OnRoleErr_continues == SetTop([Top EXCEPT !.pc = "children"])

\* Line 230: the role query failed.
OnRoleErr == PopFrame

\* collect_from_accessible, lines 228-234: get_role and the role filter.
cfa_get_role ==
  /\ At("role")
  /\ \E ans \in RoleAnswers(world, Top.key) :
       /\ stack' = IF IsSome(ans)
                   THEN SetTop([Top EXCEPT
                                  !.role = Unwrap(ans),
                                  !.pc = IF ApplyFilter(role_filter, Unwrap(ans))
                                         THEN "extents" ELSE "children"])
                   ELSE OnRoleErr
       /\ asked' = [asked EXCEPT ![Top.key].role = @ + 1,
                                 ![Top.key].role_ok = IsSome(ans)]
       /\ clast' = [kind |-> "role", key |-> Top.key, ok |-> IsSome(ans)]
  /\ UNCHANGED <<world, role_filter, cpc, apps, found, visited, cret>>
  /\ UNCHANGED <<svars, mvars, pvars, ivars, wvars>>

\* Mutant: the upper limits are inclusive.
BoxAccepted_inclusive(b) ==
  /\ b.width > 0 /\ b.height > 0 /\ b.x >= 0 /\ b.y >= 0
  /\ b.width <= 3000 /\ b.height <= 2000

\* Lines 244-246.
BoxAccepted(b) ==
  /\ b.width > 0 /\ b.height > 0 /\ b.x >= 0 /\ b.y >= 0
  /\ b.width < 3000 /\ b.height < 2000

\* ClickableElement (the name, from proxy.name(), is not modelled).
ClickableElement(role, b) ==
  [name |-> "", role |-> role, x |-> b.x, y |-> b.y,
   width |-> b.width, height |-> b.height]

\* Mutant: a node that is not pushed is left at once.
AfterExtents_return(pushed) ==
  IF pushed THEN SetTop([Top EXCEPT !.pc = "children"]) ELSE PopFrame

\* Line 270 is reached from the filter block whether or not it pushed.
AfterExtents(pushed) == SetTop([Top EXCEPT !.pc = "children"])

\* collect_from_accessible, lines 237-267: get_extents and the geometry filter.
cfa_get_extents ==
  /\ At("extents")
  /\ \E ans \in ExtentsAnswers(world, Top.key) :
       LET pushed == IsSome(ans) /\ BoxAccepted(Unwrap(ans)) IN
       /\ found' = IF pushed
                   THEN Append(found, ClickableElement(Top.role, Unwrap(ans)))
                   ELSE found
       /\ asked' = [asked EXCEPT ![Top.key].extents = @ + 1,
                                 ![Top.key].emitted = IF pushed THEN @ + 1 ELSE @]
       /\ stack' = AfterExtents(pushed)
       /\ clast' = [kind |-> "extents", key |-> Top.key, ok |-> IsSome(ans),
                    pushed |-> pushed]
  /\ UNCHANGED <<world, role_filter, cpc, apps, visited, cret>>
  /\ UNCHANGED <<svars, mvars, pvars, ivars, wvars>>

\* collect_from_accessible, line 270: get_children.
cfa_get_children ==
  /\ At("children")
  /\ \E ans \in ChildrenAnswers(world, Top.key) :
       /\ stack' = IF IsSome(ans)
                   THEN SetTop([Top EXCEPT !.pc = "loop", !.children = Unwrap(ans)])
                   ELSE PopFrame
       /\ asked' = [asked EXCEPT ![Top.key].children = @ + 1,
                                 ![Top.key].kids = IF IsSome(ans) THEN Unwrap(ans) ELSE <<>>]
       /\ clast' = [kind |-> "children", key |-> Top.key, ok |-> IsSome(ans)]
  /\ UNCHANGED <<world, role_filter, cpc, apps, found, visited, cret>>
  /\ UNCHANGED <<svars, mvars, pvars, ivars, wvars>>

\* Mutant: the for loop does not advance.
RestKids_stuck(kids) == kids

\* The child references the for loop of line 271 has still to take.
RestKids(kids) == Tail(kids)

\* collect_from_accessible, lines 271-286: the next child, or the return.
cfa_recurse ==
  /\ At("loop")
  /\ IF Top.children = <<>>
     THEN stack' = PopFrame
     ELSE stack' = Append(SetTop([Top EXCEPT !.children = RestKids(@)]),
                          Frame(Head(Top.children), Top.depth + 1))
  /\ clast' = [kind |-> "recurse", key |-> Top.key]
  /\ UNCHANGED <<world, role_filter, cpc, apps, found, visited, cret, asked>>
  /\ UNCHANGED <<svars, mvars, pvars, ivars, wvars>>

CollectNext ==
  \/ connect
  \/ registry_get_children
  \/ collect_elements_loop
  \/ cfa_entry
  \/ cfa_build_proxy
  \/ cfa_get_role
  \/ cfa_get_extents
  \/ cfa_get_children
  \/ cfa_recurse

SpecCollect == CollectInit /\ [][CollectNext]_vars

\* Every query that is issued is answered: the pass takes its next step.
FairSpecCollect == SpecCollect /\ WF_vars(CollectNext)

\* ------------------------------------------------------------ properties
\* The Active substate of the session: nothing recorded, loop not told to stop.
Active == result = None /\ ~exit

\* The override select_element has to attach under a modifier snapshot.
OverrideOf(m) ==
  IF m.shift THEN Some("RightClick")
  ELSE IF m.ctrl THEN Some("MiddleClick")
  ELSE None

\* Some key event with a character is handled in this step.
CharStep(key) == press_key(key) /\ IsSome(keysym_to_char(key))

\* C1: with auto-select enabled, a character input in an Active session that
\* makes the buffer equal to a one-character label selects that element in
\* the same step, whatever longer labels share the character as a prefix.
C1_OneCharLabelAutoSelects ==
  [][\A key \in Keysyms : \A i \in DOMAIN elements :
       (/\ auto_select
        /\ Active
        /\ CharStep(key)
        /\ Len(elements[i].hint) = 1
        /\ input_buffer' = elements[i].hint)
       => /\ exit'
          /\ result' = Some(Selected(elements[i], OverrideOf(modifiers)))]_vars

\* C2: once an outcome is in the result cell, no later step changes it.
C2_OutcomeImmutable ==
  [][result # None => result' = result]_vars

\* C3: when the event loop has stopped because the exit flag is set,
\* a result has been recorded and run_overlay returns it, not an error.
C3_LoopEndHasResult ==
  (pc = "done" /\ ret # Some(Err("Wayland dispatch failed")))
    => (result # None /\ ret = Some(Ok(Unwrap(result))))

\* The last handled event is the one that set the exit flag.
JustEnded == exit /\ tail = 0

\* C4 (as stated): Enter with an empty buffer in an Active session is a no-op
\* for every non-empty labeled set.
C4_EnterOnEmptyBufferNoOp ==
  [][(Active /\ input_buffer = <<>> /\ Len(elements) >= 1 /\ press_key("Return"))
       => UNCHANGED <<input_buffer, modifiers, result, exit>>]_vars

\* C4 (amended): Enter with an empty buffer in an Active session is a no-op
\* for every labeled set of at least two elements; with a labeled set of
\* exactly one element it selects that element.
C4_EnterOnEmptyBuffer ==
  [][(Active /\ input_buffer = <<>> /\ press_key("Return"))
       => IF Len(elements) >= 2
          THEN UNCHANGED <<input_buffer, modifiers, result, exit>>
          ELSE /\ result' = Some(Selected(elements[1], OverrideOf(modifiers)))
               /\ exit'
               /\ UNCHANGED <<input_buffer, modifiers>>]_vars

\* Enter was handled on an empty buffer with several labels; still Active.
C4_Witness ==
  /\ last = Event("press_key", "Return")
  /\ input_buffer = <<>>
  /\ Len(elements) >= 2
  /\ Active

\* C5: Enter selects find_exact_match(buffer) if it exists, otherwise
\* find_unique_match(buffer) if it exists; when neither exists result and
\* exit flag stay as they are; buffer and modifiers are never changed.
C5_ConfirmSelects ==
  [][press_key("Return")
       => LET exact  == find_exact_match(elements, input_buffer)
              unique == find_unique_match(elements, input_buffer)
          IN /\ UNCHANGED <<input_buffer, modifiers>>
             /\ IF IsSome(exact)
                THEN /\ result' = Some(Selected(Unwrap(exact), OverrideOf(modifiers)))
                     /\ exit'
                ELSE IF IsSome(unique)
                THEN /\ result' = Some(Selected(Unwrap(unique), OverrideOf(modifiers)))
                     /\ exit'
                ELSE UNCHANGED <<result, exit>>]_vars

\* Enter ended an Active session, selecting the label the buffer spells out,
\* auto-select being off.
C5_Witness ==
  /\ last = Event("press_key", "Return")
  /\ JustEnded
  /\ ~auto_select
  /\ IsSome(result)
  /\ Unwrap(result).tag = "Selected"
  /\ Unwrap(result).elem.hint = input_buffer
  /\ Len(elements) >= 2

\* C6: a character input appends the character; result and exit flag are
\* written in that step if and only if auto-select is on and
\* find_exact_match of the new buffer yields an element, which is then the
\* selected one.
C6_CharInput ==
  [][\A key \in Keysyms :
       CharStep(key)
       => LET buf == Append(input_buffer, Unwrap(keysym_to_char(key)))
              m   == find_exact_match(elements, buf)
          IN /\ input_buffer' = buf
             /\ IF auto_select /\ IsSome(m)
                THEN /\ result' = Some(Selected(Unwrap(m), OverrideOf(modifiers)))
                     /\ exit'
                ELSE UNCHANGED <<result, exit>>]_vars

\* A character input ended an Active session by auto-select.
C6_Witness ==
  /\ auto_select
  /\ last.kind = "press_key"
  /\ IsSome(keysym_to_char(last.key))
  /\ JustEnded
  /\ IsSome(result)
  /\ Unwrap(result).tag = "Selected"
  /\ Unwrap(result).elem.hint = input_buffer

\* C7: whenever a Selected outcome is written, its override is right-click if
\* shift is held, otherwise middle-click if control is held, otherwise none.
C7_OverrideFromModifiers ==
  [][(result' # result /\ IsSome(result') /\ Unwrap(result').tag = "Selected")
       => Unwrap(result').action =
            (IF modifiers.shift THEN Some("RightClick")
             ELSE IF modifiers.ctrl THEN Some("MiddleClick")
             ELSE None)]_vars

\* Enter selected while shift and control were both held: right-click only.
C7_Witness ==
  /\ last = Event("press_key", "Return")
  /\ JustEnded
  /\ modifiers = [shift |-> TRUE, ctrl |-> TRUE]
  /\ IsSome(result)
  /\ Unwrap(result).tag = "Selected"
  /\ Unwrap(result).action = Some("RightClick")

\* C8: the override delivered with a Selected outcome is the one computed
\* from the modifier snapshot held when the session went to Selected;
\* modifier updates after that instant do not influence it.
C8_OverrideFromTransitionSnapshot ==
  (/\ pc = "done"
   /\ IsSome(first)
   /\ Unwrap(first).tag = "Selected"
   /\ Unwrap(ret).tag = "Ok"
   /\ Unwrap(ret).value.tag = "Selected")
    => Unwrap(ret).value.action = Unwrap(first).action

\* C9: once Escape has been handled in an Active session, the caller
\* receives Cancelled: no element and no override.
C9_EscapeDeliversCancelled ==
  (/\ pc = "done"
   /\ first = Some(Cancelled)
   /\ Unwrap(ret).tag = "Ok")
    => show_and_select(Unwrap(ret)) = Ok(None)

\* C10: backspace removes exactly the last character of a non-empty buffer,
\* leaves an empty buffer empty and changes nothing else.
C10_BackspaceOnlyPops ==
  [][press_key("BackSpace")
       => /\ input_buffer' = (IF Len(input_buffer) = 0 THEN <<>>
                              ELSE SubSeq(input_buffer, 1, Len(input_buffer) - 1))
          /\ UNCHANGED <<elements, auto_select, modifiers, result, exit, pc, ret>>]_vars

\* Backspace shortened the buffer to one matched by exactly one label, and
\* the session is still Active.
C10_Witness ==
  /\ last = Event("press_key", "BackSpace")
  /\ Active
  /\ Len(input_buffer) = 1
  /\ IsSome(find_unique_match(elements, input_buffer))

\* C11: a modifier update replaces the stored snapshot and leaves buffer,
\* labeled set, result cell and exit flag unchanged.
C11_ModifierUpdateFrame ==
  [][\A m \in ModifierStates :
       update_modifiers(m)
       => /\ modifiers' = m
          /\ UNCHANGED <<input_buffer, elements, auto_select, result, exit, pc, ret>>]_vars

\* A modifier update was handled in an Active session whose buffer is matched
\* by exactly one label; the session is still Active with the new snapshot.
C11_Witness ==
  /\ last.kind = "update_modifiers"
  /\ modifiers = [shift |-> TRUE, ctrl |-> FALSE]
  /\ Active
  /\ Len(input_buffer) = 1
  /\ IsSome(find_unique_match(elements, input_buffer))

\* C12: a letter key event appends the letter's lower-case form also when it
\* arrives as the upper-case key symbol.
C12_UpperCaseKeysymAppendsLower ==
  [][\A key \in Keysyms :
       (press_key(key) /\ key \in Range(UpperLetters) /\ Len(input_buffer) < MaxBuf)
       => input_buffer' = Append(input_buffer, char_to_lowercase(key))]_vars


\* ------------------------------------------------ main.rs: run_click_mode
\* ActionMode; "Scroll" stands for the modes click mode has no arm for.
ActionModes == {"Click", "RightClick", "MiddleClick", "Scroll"}

\* format!("{:?}", role) of the roles the flat tree answers with.
DebugName(role) ==
  CASE role = "PushButton" -> <<"P", "u", "s", "h", "B", "u", "t", "t", "o", "n">>
    [] role = "Link"       -> <<"L", "i", "n", "k">>
    [] role = "Panel"      -> <<"P", "a", "n", "e", "l">>

\* The --filter values tried: none, and three role-name fragments.
Filters ==
  {None, Some(<<"B", "u", "t">>), Some(<<"l", "i", "n", "k">>), Some(<<"t", "a", "b">>)}

\* str::contains
contains(s, pat) ==
  \E i \in 0..(Len(s) - Len(pat)) : SubSeq(s, i + 1, i + Len(pat)) = pat

\* ClickableElement::center (operands are not negative: / is \div)
center(e) == <<e.x + e.width \div 2, e.y + e.height \div 2>>

\* HintedElement::click_position
click_position(h) == center(h.element)

\* Entry of run_click_mode: discovery starts over the flat tree.
ModeInit ==
  /\ world = "flat"
  /\ role_filter = "clickable"
  /\ cpc = "connect"
  /\ apps = <<>>
  /\ stack = <<>>
  /\ found = <<>>
  /\ visited = {}
  /\ cret = None
  /\ asked = [n \in NodesOf("flat") |-> NotAsked]
  /\ clast = [kind |-> "init"]
  /\ SessionIdle
  /\ CallIdle
  /\ InjectIdle
  /\ ScrollIdle
  /\ mpc = "discover"
  /\ action \in ActionModes
  /\ filter \in Filters
  /\ hint_chars \in Alphabets
  /\ mode_elements = <<>>
  /\ hinted_elements = <<>>
  /\ mode_result = None
  /\ dispatched = <<>>
  /\ reported = FALSE
  /\ mode_ret = None

\* run_click_mode, line 120: get_clickable_elements().await? has returned;
\* the locals of collect_elements are gone.
get_clickable_elements_returns ==
  /\ mpc = "discover"
  /\ cpc = "done"
  /\ IF Unwrap(cret).tag = "Err"
     THEN /\ mode_ret' = Some(Unwrap(cret))
          /\ mpc' = "done"
          /\ UNCHANGED mode_elements
     ELSE /\ mode_elements' = Unwrap(cret).value
          /\ mpc' = "filter"
          /\ UNCHANGED mode_ret
  /\ cpc' = "idle"
  /\ apps' = <<>>
  /\ stack' = <<>>
  /\ found' = <<>>
  /\ visited' = {}
  /\ cret' = None
  /\ asked' = <<>>
  /\ clast' = [kind |-> "idle"]
  /\ UNCHANGED <<world, role_filter>>
  /\ UNCHANGED <<action, filter, hint_chars, hinted_elements, mode_result,
                 dispatched, reported>>
  /\ UNCHANGED <<svars, pvars, ivars, wvars>>

\* run_click_mode, lines 124-129: elements.retain on the role name.
retain_filter ==
  /\ mpc = "filter"
  /\ mode_elements' =
       IF IsSome(filter)
       THEN LET Keep(e) == contains(to_lowercase(DebugName(e.role)),
                                    to_lowercase(Unwrap(filter)))
            IN SelectSeq(mode_elements, Keep)
       ELSE mode_elements
  /\ mpc' = "check"
  /\ UNCHANGED <<action, filter, hint_chars, hinted_elements, mode_result,
                 dispatched, reported, mode_ret>>
  /\ UNCHANGED <<svars, cvars, pvars, ivars, wvars>>

\* Mutant: the empty list is not told apart.
NothingFound_never(elems) == FALSE

\* Line 131.
NothingFound(elems) == Len(elems) = 0

\* run_click_mode, lines 131-138: nothing found is reported, Ok(()) returned.
check_empty ==
  /\ mpc = "check"
  /\ IF NothingFound(mode_elements)
     THEN /\ reported' = TRUE
          /\ mode_ret' = Some(Ok("()"))
          /\ mpc' = "done"
     ELSE /\ mpc' = "assign"
          /\ UNCHANGED <<reported, mode_ret>>
  /\ UNCHANGED <<action, filter, hint_chars, mode_elements, hinted_elements,
                 mode_result, dispatched>>
  /\ UNCHANGED <<svars, cvars, pvars, ivars, wvars>>

\* run_click_mode, line 142: hints::assign_hints.
assign ==
  /\ mpc = "assign"
  /\ hinted_elements' = assign_hints(mode_elements, hint_chars)
  /\ mpc' = "select"
  /\ UNCHANGED <<action, filter, hint_chars, mode_elements, mode_result,
                 dispatched, reported, mode_ret>>
  /\ UNCHANGED <<svars, cvars, pvars, ivars, wvars>>

\* Everything run_overlay can return for a labeled set.
OverlayReturns(hinted) ==
  {Err("Wayland dispatch failed"), Err("No result"), Ok(Cancelled)} \cup
  {Ok(Selected(hinted[i], ov)) :
     i \in DOMAIN hinted, ov \in {None, Some("RightClick"), Some("MiddleClick")}}

\* run_click_mode, line 145: overlay::show_and_select(..).await? has returned.
show_and_select_returns ==
  /\ mpc = "select"
  /\ \E r \in OverlayReturns(hinted_elements) :
       LET res == show_and_select(r) IN
       IF res.tag = "Err"
       THEN /\ mode_ret' = Some(res)
            /\ mpc' = "done"
            /\ UNCHANGED mode_result
       ELSE /\ mode_result' = Some(res.value)
            /\ mpc' = "dispatch"
            /\ UNCHANGED mode_ret
  /\ UNCHANGED <<action, filter, hint_chars, mode_elements, hinted_elements,
                 dispatched, reported>>
  /\ UNCHANGED <<svars, cvars, pvars, ivars, wvars>>

\* Lines 152-168: the injection function of the final action.
ClickFn(final_action) ==
  CASE final_action = "Click"       -> "click_at"
    [] final_action = "RightClick"  -> "right_click_at"
    [] final_action = "MiddleClick" -> "middle_click_at"
    [] OTHER                        -> "click_at"

\* run_click_mode, lines 148-174: the action on the selected element.
perform_action ==
  /\ mpc = "dispatch"
  /\ LET res == Unwrap(mode_result) IN
     IF IsSome(res)
     THEN LET element == Unwrap(res)[1]
              modifier_action == Unwrap(res)[2]
              final_action == IF IsSome(modifier_action)
                              THEN Unwrap(modifier_action) ELSE action
              xy == click_position(element)
          IN /\ dispatched' = Append(dispatched,
                                     [fn |-> ClickFn(final_action),
                                      x |-> xy[1], y |-> xy[2]])
             /\ \E ok \in BOOLEAN :
                  mode_ret' = Some(IF ok THEN Ok("()") ELSE Err("click failed"))
     ELSE /\ mode_ret' = Some(Ok("()"))
          /\ UNCHANGED dispatched
  /\ mpc' = "done"
  /\ UNCHANGED <<action, filter, hint_chars, mode_elements, hinted_elements,
                 mode_result, reported>>
  /\ UNCHANGED <<svars, cvars, pvars, ivars, wvars>>

ModeNext ==
  \/ CollectNext
  \/ get_clickable_elements_returns
  \/ retain_filter
  \/ check_empty
  \/ assign
  \/ show_and_select_returns
  \/ perform_action

SpecMode == ModeInit /\ [][ModeNext]_vars

\* ------------------------------------------- hints.rs, atspi.rs: calls
\* Characters the alphabets of the calls are made of (MaxK + 1 of them).
PoolChars == Take(<<"h", "j", "k", "l", "a", "s", "d", "f">>, MaxK + 1)

SeqsUpTo(S, n) == UNION {[1..m -> S] : m \in 0..n}

\* Alphabets handed to the hint functions: with and without repeated characters.
CallAlphabets == SeqsUpTo(Range(PoolChars), MaxK)

\* The number of labels of one, two and three characters over k characters.
Capacity(k) == k + k * k + k * k * k

\* Element counts of the calls: up to one more than the largest capacity.
CallCounts == 0..(Capacity(MaxK) + 1)

\* Element lists of n distinct elements, in two orders.
ElemLists(n) == {[i \in 1..n |-> i], [i \in 1..n |-> n + 1 - i]}

\* Prefixes handed to the matching functions: the first two pool characters
\* and the upper-case form of the first.
CallPrefixes == SeqsUpTo({PoolChars[1], PoolChars[2], "H"}, MaxK)

\* Role tags handed to the role predicates: those of the three predicates
\* and others of the Role enum.
Roles ==
  ActionableRoles \cup ScrollableRoles \cup TextInputRoles \cup
  {"Invalid", "Label", "Window", "Menu", "MenuBar", "ToolBar", "Text", "Image",
   "Table", "List", "Dialog", "Heading", "Paragraph", "Section", "StatusBar",
   "Separator", "CheckMenuItem", "RadioMenuItem", "Tree", "Canvas"}

\* The alphabets and counts of the tests of hints.rs.
TestAlphabets == {DEFAULT_HINT_CHARS, <<"h", "j", "k", "l">>, <<"a", "s", "d", "f", "g">>}
TestCounts == {5, 30}

\* generate_hints(count, chars)
apply_generate_hints ==
  /\ call.fn = "none"
  /\ \E count \in CallCounts \cup TestCounts, chars \in CallAlphabets \cup TestAlphabets :
       /\ call' = [fn |-> "generate_hints", count |-> count, chars |-> chars]
       /\ out' = generate_hints(count, chars)
  /\ UNCHANGED <<svars, cvars, mvars, ivars, wvars>>

\* assign_hints(elements, chars)
apply_assign_hints ==
  /\ call.fn = "none"
  /\ \E n \in CallCounts, chars \in CallAlphabets :
       \E elems \in ElemLists(n) :
         /\ call' = [fn |-> "assign_hints", elements |-> elems, chars |-> chars]
         /\ out' = assign_hints(elems, chars)
  /\ UNCHANGED <<svars, cvars, mvars, ivars, wvars>>

\* filter_by_prefix(elements, prefix) on a list assign_hints produced
apply_filter_by_prefix ==
  /\ call.fn = "none"
  /\ \E n \in CallCounts, chars \in CallAlphabets, prefix \in CallPrefixes :
       LET hinted == assign_hints([i \in 1..n |-> i], chars) IN
       /\ call' = [fn |-> "filter_by_prefix", elements |-> hinted, prefix |-> prefix]
       /\ out' = filter_by_prefix(hinted, prefix)
  /\ UNCHANGED <<svars, cvars, mvars, ivars, wvars>>

\* find_exact_match(elements, prefix) on a list assign_hints produced
apply_find_exact_match ==
  /\ call.fn = "none"
  /\ \E n \in CallCounts, chars \in CallAlphabets, prefix \in CallPrefixes :
       LET hinted == assign_hints([i \in 1..n |-> i], chars) IN
       /\ call' = [fn |-> "find_exact_match", elements |-> hinted, prefix |-> prefix]
       /\ out' = find_exact_match(hinted, prefix)
  /\ UNCHANGED <<svars, cvars, mvars, ivars, wvars>>

\* find_unique_match(elements, prefix) on a list assign_hints produced
apply_find_unique_match ==
  /\ call.fn = "none"
  /\ \E n \in CallCounts, chars \in CallAlphabets, prefix \in CallPrefixes :
       LET hinted == assign_hints([i \in 1..n |-> i], chars) IN
       /\ call' = [fn |-> "find_unique_match", elements |-> hinted, prefix |-> prefix]
       /\ out' = find_unique_match(hinted, prefix)
  /\ UNCHANGED <<svars, cvars, mvars, ivars, wvars>>

\* handle_key as a function of the session state s = [input_buffer, result]
\* (the modifiers are left at their default, so no override is attached).
handle_key_on(elems, auto, s, key) ==
  CASE key = "Escape" -> [s EXCEPT !.result = Some(Cancelled)]
    [] key = "BackSpace" -> [s EXCEPT !.input_buffer = Pop(@)]
    [] key = "Return" ->
         LET exact    == find_exact_match(elems, s.input_buffer)
             selected == IF IsSome(exact) THEN exact
                         ELSE find_unique_match(elems, s.input_buffer)
         IN IF IsSome(selected)
            THEN [s EXCEPT !.result = Some(Selected(Unwrap(selected), None))]
            ELSE s
    [] OTHER ->
         IF IsSome(keysym_to_char(key))
         THEN LET buf      == Append(s.input_buffer, Unwrap(keysym_to_char(key)))
                  selected == find_exact_match(elems, buf)
              IN IF auto /\ IsSome(selected)
                 THEN [input_buffer |-> buf,
                       result |-> Some(Selected(Unwrap(selected), None))]
                 ELSE [s EXCEPT !.input_buffer = buf]
         ELSE s

\* The key events of a user who types hint characters, erases and confirms.
TypingKeys(chars) == Range(chars) \cup {"BackSpace", "Return"}

\* The session states key events lead to from the states S: a state that
\* holds a result is final, a buffer takes at most MaxBuf characters.
RECURSIVE SessionsFrom(_, _, _, _)
SessionsFrom(elems, auto, keys, S) ==
  LET open == {p \in S \X keys :
                 /\ p[1].result = None
                 /\ IsSome(keysym_to_char(p[2])) => Len(p[1].input_buffer) < MaxBuf}
      T    == S \cup {handle_key_on(elems, auto, p[1], p[2]) : p \in open}
  IN IF T = S THEN S ELSE SessionsFrom(elems, auto, keys, T)

\* The elements some sequence of key events ends a session with.
SelectableElements(elems, auto, keys) ==
  LET start == [input_buffer |-> <<>>, result |-> None]
      final == {s \in SessionsFrom(elems, auto, keys, {start}) :
                  s.result # None /\ Unwrap(s.result).tag = "Selected"}
  IN {Unwrap(s.result).elem : s \in final}

\* Sessions over the labeled set of n elements and an alphabet of distinct
\* characters: every outcome typing can end them with.
apply_run_overlay ==
  /\ call.fn = "none"
  /\ \E n \in 1..MaxElems, k \in 1..MaxK, auto \in BOOLEAN :
       LET chars  == Take(PoolChars, k)
           hinted == assign_hints([i \in 1..n |-> i], chars)
       IN /\ call' = [fn |-> "run_overlay", elements |-> hinted, chars |-> chars,
                      auto_select |-> auto]
          /\ out' = SelectableElements(hinted, auto, TypingKeys(chars))
  /\ UNCHANGED <<svars, cvars, mvars, ivars, wvars>>

\* is_actionable_role / is_scrollable_role / is_text_input_role (role)
apply_role_filter ==
  /\ call.fn = "none"
  /\ \E f \in RoleFilters, role \in Roles :
       /\ call' = [fn |-> "role_filter", f |-> f, role |-> role]
       /\ out' = ApplyFilter(f, role)
  /\ UNCHANGED <<svars, cvars, mvars, ivars, wvars>>

CallsInit ==
  /\ CallIdle
  /\ InjectIdle
  /\ ScrollIdle
  /\ SessionIdle
  /\ CollectorIdle
  /\ ModeIdle

CallsNext ==
  \/ apply_generate_hints
  \/ apply_assign_hints
  \/ apply_filter_by_prefix
  \/ apply_find_exact_match
  \/ apply_find_unique_match
  \/ apply_run_overlay
  \/ apply_role_filter

SpecCalls == CallsInit /\ [][CallsNext]_vars

\* ------------------------------------------- click.rs: pointer injection
\* ScrollDirection
ScrollDirections == {"Up", "Down", "Left", "Right"}

\* The calls of the model: click_at, right_click_at and middle_click_at with
\* the button they pass on, scroll_at with its direction.
InjectCalls ==
  {[fn |-> "click_at", button |-> "Left"],
   [fn |-> "right_click_at", button |-> "Right"],
   [fn |-> "middle_click_at", button |-> "Middle"]} \cup
  {[fn |-> "scroll_at", direction |-> d] : d \in ScrollDirections}

\* Mutant: the clicks try the methods in the order of scroll_at.
ClickOrder_as_scroll == <<"ydotool", "dotool", "wlrctl", "wtype">>

\* The methods click_at and perform_click try after the Hyprland branch.
ClickOrder == <<"ydotool", "wlrctl", "dotool", "wtype">>

\* The methods scroll_at tries after the Hyprland branch.
ScrollOrder == <<"ydotool", "dotool", "wlrctl">>

\* The methods a call tries as long as none succeeds.
MethodOrder(c, hypr) ==
  (IF hypr THEN <<"hyprctl">> ELSE <<>>) \o
  (IF c.fn = "scroll_at" THEN ScrollOrder ELSE ClickOrder)

\* What a try_* function can return: Ok (TRUE) or Err (FALSE).
\* try_wlrctl_scroll bails for a horizontal direction.
TryOutcomes(c, method) ==
  IF c.fn = "scroll_at" /\ method = "wlrctl" /\ c.direction \in {"Left", "Right"}
  THEN {FALSE}
  ELSE BOOLEAN

\* anyhow::bail! at the end of the function
NoMethod(c) ==
  IF c.fn = "scroll_at" THEN Err("No scroll method available")
  ELSE Err("No click method available")

\* A click or scroll function has been called.
InjectInit ==
  /\ inj \in InjectCalls
  /\ hyprland \in BOOLEAN
  /\ inj_pc = "entry"
  /\ tried = <<>>
  /\ inj_ret = None
  /\ SessionIdle
  /\ CollectorIdle
  /\ ModeIdle
  /\ CallIdle
  /\ ScrollIdle

\* if is_hyprland() { .. }: the first method to try.
is_hyprland ==
  /\ inj_pc = "entry"
  /\ inj_pc' = MethodOrder(inj, hyprland)[1]
  /\ UNCHANGED <<inj, hyprland, tried, inj_ret>>
  /\ UNCHANGED <<svars, cvars, mvars, pvars, wvars>>

\* if try_<method>(..).is_ok() { return Ok(()) }, falling through to the
\* next method or to the bail! behind the last one.
Try(method) ==
  /\ inj_pc = method
  /\ \E ok \in TryOutcomes(inj, method) :
       LET order == MethodOrder(inj, hyprland)
           i     == CHOOSE n \in DOMAIN order : order[n] = method
       IN /\ tried' = Append(tried, [method |-> method, ok |-> ok])
          /\ IF ok
             THEN inj_pc' = "done" /\ inj_ret' = Some(Ok("()"))
             ELSE IF i = Len(order)
             THEN inj_pc' = "done" /\ inj_ret' = Some(NoMethod(inj))
             ELSE inj_pc' = order[i + 1] /\ UNCHANGED inj_ret
  /\ UNCHANGED <<inj, hyprland>>
  /\ UNCHANGED <<svars, cvars, mvars, pvars, wvars>>

try_hyprctl == Try("hyprctl")
try_ydotool == Try("ydotool")
try_wlrctl  == Try("wlrctl")
try_dotool  == Try("dotool")
try_wtype   == Try("wtype")

InjectNext ==
  \/ is_hyprland
  \/ try_hyprctl
  \/ try_ydotool
  \/ try_wlrctl
  \/ try_dotool
  \/ try_wtype

SpecInject == InjectInit /\ [][InjectNext]_vars

\* ------------------------------------------------- scroll.rs: scroll mode
\* The keys of the model: every key handle_key names and one it does not.
ScrollKeysyms ==
  {"Escape", "q", "h", "j", "k", "l", "Left", "Down", "Up", "Right",
   "d", "u", "g", "G", "a"}

\* The calls of run_scroll_overlay of the model: a point with the default
\* [scroll] configuration and another point with another configuration.
ScrollCalls ==
  {[target |-> <<0, 0>>, steps |-> [scroll_step |-> 50, page_step |-> 500]],
   [target |-> <<640, 360>>, steps |-> [scroll_step |-> 10, page_step |-> 100]]}

\* An event handled by the scroll session; scrolled is None when the handler
\* did not call scroll_at, else the request with what scroll_at returned
\* (ok: Ok or Err).
ScrollEvent(kind, key, scrolled) == [kind |-> kind, key |-> key, scrolled |-> scrolled]

\* scroll_at(self.target_x, self.target_y, direction, amount)
ScrollRequest(direction, amount) ==
  [x |-> target[1], y |-> target[2], direction |-> direction, amount |-> amount]

\* Mutant: the step does not depend on Control.
Step_ignores_ctrl == steps.scroll_step

\* handle_key, lines 180-184: let step = if self.modifiers.ctrl { .. }
Step == IF scroll_modifiers.ctrl THEN steps.page_step ELSE steps.scroll_step

\* The match of handle_key: the scroll_at call of a key, None for the exit
\* keys and for the keys of the `_` arm.
RequestOf(key) ==
  IF key \in {"h", "Left"} THEN Some(ScrollRequest("Left", Step))
  ELSE IF key \in {"j", "Down"} THEN Some(ScrollRequest("Down", Step))
  ELSE IF key \in {"k", "Up"} THEN Some(ScrollRequest("Up", Step))
  ELSE IF key \in {"l", "Right"} THEN Some(ScrollRequest("Right", Step))
  ELSE IF key = "d" /\ scroll_modifiers.ctrl THEN Some(ScrollRequest("Down", steps.page_step))
  ELSE IF key = "u" /\ scroll_modifiers.ctrl THEN Some(ScrollRequest("Up", steps.page_step))
  ELSE IF key = "g" THEN Some(ScrollRequest("Up", 10000))
  ELSE IF key = "G" THEN Some(ScrollRequest("Down", 10000))
  ELSE None

\* State of run_scroll_overlay at line 87: the ScrollState just built.
ScrollInit ==
  /\ \E c \in ScrollCalls : target = c.target /\ steps = c.steps
  /\ scroll_modifiers = ModifiersDefault
  /\ scroll_exit = FALSE
  /\ scroll_pc = "loop"
  /\ scroll_ret = None
  /\ requests = 0
  /\ scroll_tail = 0
  /\ scroll_last = ScrollEvent("init", "", None)
  /\ SessionIdle
  /\ CollectorIdle
  /\ ModeIdle
  /\ CallIdle
  /\ InjectIdle

\* run_scroll_overlay, line 87: the loop is entered while exit is false.
scroll_blocking_dispatch ==
  /\ scroll_pc = "loop"
  /\ ~scroll_exit
  /\ scroll_pc' = "dispatch"
  /\ UNCHANGED <<target, steps, scroll_modifiers, scroll_exit, scroll_ret,
                 requests, scroll_tail, scroll_last>>
  /\ UNCHANGED <<svars, cvars, mvars, pvars, ivars>>

\* An event handler of the scroll session runs; events queued behind the one
\* that set exit are still handled.
ScrollHandled ==
  /\ scroll_pc = "dispatch"
  /\ scroll_exit => scroll_tail < MaxTail
  /\ scroll_tail' = IF scroll_exit THEN scroll_tail + 1 ELSE scroll_tail
  /\ UNCHANGED <<svars, cvars, mvars, pvars, ivars>>

\* ScrollState::handle_key; the result of scroll_at is dropped (let _ =).
scroll_handle_key(key) ==
  IF key \in {"Escape", "q"}
  THEN /\ scroll_exit' = TRUE
       /\ scroll_last' = ScrollEvent("press_key", key, None)
       /\ UNCHANGED requests
  ELSE IF IsSome(RequestOf(key))
  THEN /\ requests < MaxReq
       /\ requests' = requests + 1
       /\ \E ok \in BOOLEAN :
            scroll_last' = ScrollEvent("press_key", key,
                             Some([request |-> Unwrap(RequestOf(key)), ok |-> ok]))
       /\ UNCHANGED scroll_exit
  ELSE /\ scroll_last' = ScrollEvent("press_key", key, None)
       /\ UNCHANGED <<scroll_exit, requests>>

\* KeyboardHandler::press_key of ScrollState (draw changes nothing the
\* session reads).
scroll_press_key(key) ==
  /\ ScrollHandled
  /\ scroll_handle_key(key)
  /\ UNCHANGED <<target, steps, scroll_modifiers, scroll_pc, scroll_ret>>

\* KeyboardHandler::update_modifiers of ScrollState
scroll_update_modifiers(m) ==
  /\ ScrollHandled
  /\ scroll_modifiers' = m
  /\ scroll_last' = ScrollEvent("update_modifiers", "", None)
  /\ UNCHANGED <<target, steps, scroll_exit, scroll_pc, scroll_ret, requests>>

\* LayerShellHandler::closed of ScrollState
scroll_closed ==
  /\ ScrollHandled
  /\ scroll_exit' = TRUE
  /\ scroll_last' = ScrollEvent("closed", "", None)
  /\ UNCHANGED <<target, steps, scroll_modifiers, scroll_pc, scroll_ret, requests>>

\* blocking_dispatch returns Ok: back to the loop condition.
scroll_dispatch_returns ==
  /\ scroll_pc = "dispatch"
  /\ scroll_pc' = "loop"
  /\ UNCHANGED <<target, steps, scroll_modifiers, scroll_exit, scroll_ret,
                 requests, scroll_tail, scroll_last>>
  /\ UNCHANGED <<svars, cvars, mvars, pvars, ivars>>

\* blocking_dispatch returns Err: run_scroll_overlay returns it (line 88).
scroll_dispatch_fails ==
  /\ scroll_pc = "dispatch"
  /\ scroll_pc' = "done"
  /\ scroll_ret' = Some(Err("Wayland dispatch failed"))
  /\ UNCHANGED <<target, steps, scroll_modifiers, scroll_exit,
                 requests, scroll_tail, scroll_last>>
  /\ UNCHANGED <<svars, cvars, mvars, pvars, ivars>>

\* run_scroll_overlay, line 91: the loop has ended.
run_scroll_overlay_returns ==
  /\ scroll_pc = "loop"
  /\ scroll_exit
  /\ scroll_pc' = "done"
  /\ scroll_ret' = Some(Ok("()"))
  /\ UNCHANGED <<target, steps, scroll_modifiers, scroll_exit,
                 requests, scroll_tail, scroll_last>>
  /\ UNCHANGED <<svars, cvars, mvars, pvars, ivars>>

ScrollNext ==
  \/ scroll_blocking_dispatch
  \/ \E key \in ScrollKeysyms : scroll_press_key(key)
  \/ \E m \in ModifierStates : scroll_update_modifiers(m)
  \/ scroll_closed
  \/ scroll_dispatch_returns
  \/ scroll_dispatch_fails
  \/ run_scroll_overlay_returns

SpecScroll == ScrollInit /\ [][ScrollNext]_vars

\* ---------------------------------------------- properties: discovery pass
\* C13: a discovery pass over a tree of finitely many node keys and finite
\* child lists, cycles and self references included, terminates whatever
\* queries fail, every issued query being answered.
C13_PassTerminates == <>(cpc = "done")

\* The pass has returned after meeting a node that lists itself as a child
\* and a node whose role query failed.
C13_Witness ==
  /\ cpc = "done"
  /\ world = "free"
  /\ \E n \in DOMAIN asked : n \in Range(asked[n].kids)
  /\ \E m \in DOMAIN asked : asked[m].role = 1 /\ ~asked[m].role_ok

\* C14: within one pass each node key has its role, extents and children
\* queried at most once and contributes at most one element.
C14_EachKeyOnce ==
  \A n \in DOMAIN asked :
    /\ asked[n].role <= 1
    /\ asked[n].extents <= 1
    /\ asked[n].children <= 1
    /\ asked[n].emitted <= 1

\* A node that already contributed its element is reached a second time and
\* skipped.
C14_Witness ==
  /\ clast.kind = "entry"
  /\ clast.outcome = "visited"
  /\ asked[clast.key].emitted = 1
  /\ asked[clast.key].children = 1

\* C15: no node at depth greater than 20 is queried or emitted, and a node
\* reached at depth exactly 20 (below the size bound, not yet visited) is
\* processed.
C15_DepthBound ==
  /\ [](/\ \A i \in DOMAIN stack :
             stack[i].pc # "entry" => stack[i].depth <= 20
        /\ \A n \in DOMAIN asked :
             (asked[n].role + asked[n].extents + asked[n].children
                + asked[n].emitted > 0) => asked[n].depth <= 20)
  /\ [][(/\ cfa_entry
         /\ Top.depth = 20
         /\ Len(found) < MAX_ELEMENTS
         /\ Top.key \notin visited)
        => /\ Top.key \in visited'
           /\ Len(stack') = Len(stack)]_vars

\* In the chain the node at depth 20 has contributed its element and its
\* child, reached at depth 21, has just been turned away.
C15_Witness ==
  /\ world = "chain"
  /\ clast = [kind |-> "entry", key |-> 22, outcome |-> "bounds"]
  /\ asked[21].depth = 20
  /\ asked[21].emitted = 1
  /\ asked[22].role = 0
  /\ 22 \notin visited

\* C16: at every point of the pass, and in the list it returns, there are
\* at most 500 elements.
C16_SizeBound ==
  /\ Len(found) <= 500
  /\ (IsSome(cret) /\ Unwrap(cret).tag = "Ok") => Len(Unwrap(cret).value) <= 500

\* The pass over the wide tree returned exactly 500 elements, nodes being
\* left over.
C16_Witness ==
  /\ world = "wide"
  /\ cpc = "done"
  /\ cret = Some(Ok(found))
  /\ Len(found) = 500
  /\ \E n \in DOMAIN asked : n \notin visited

\* C17: a node reached beyond depth 20 or with 500 elements accumulated is
\* neither marked visited nor queried; once 500 elements are accumulated no
\* node is marked visited or asked for its role any more.
C17_BoundsBeforeWork ==
  [][/\ (cfa_entry /\ (Top.depth > 20 \/ Len(found) >= 500))
          => /\ UNCHANGED <<visited, asked, found>>
             /\ stack' = PopFrame
     /\ Len(found) >= 500
          => /\ visited' = visited
             /\ \A n \in DOMAIN asked : asked'[n].role = asked[n].role]_vars

\* With 500 elements accumulated a further node was reached and turned away
\* unmarked and unqueried.
C17_Witness ==
  /\ Len(found) = 500
  /\ clast.kind = "entry"
  /\ clast.outcome = "bounds"
  /\ clast.key \notin visited
  /\ asked[clast.key] = NotAsked

\* C18: every emitted element has x >= 0, y >= 0, 0 < width < 3000 and
\* 0 < height < 2000.
C18_Geometry ==
  \A i \in DOMAIN found :
    /\ found[i].x >= 0
    /\ found[i].y >= 0
    /\ 0 < found[i].width /\ found[i].width < 3000
    /\ 0 < found[i].height /\ found[i].height < 2000

\* A box of 2999 by 1999 at the origin was emitted and the box reported for
\* another node has just been rejected.
C18_Witness ==
  /\ \E i \in DOMAIN found :
       found[i].width = 2999 /\ found[i].height = 1999 /\ found[i].x = 0
  /\ clast.kind = "extents"
  /\ clast.ok
  /\ ~clast.pushed

\* C19: a node whose role query failed is not emitted, is asked for neither
\* its extents nor its children, is left in that very step, and a pass in
\* which this happened returns a list.
C19_RoleFailureSkipsNode ==
  /\ [](/\ \A n \in DOMAIN asked :
             (asked[n].role >= 1 /\ ~asked[n].role_ok)
             => /\ asked[n].emitted = 0
                /\ asked[n].extents = 0
                /\ asked[n].children = 0
        /\ (cpc = "done" /\ \E n \in DOMAIN asked : asked[n].role >= 1)
             => cret = Some(Ok(found)))
  /\ [][(cfa_get_role /\ ~clast'.ok) => stack' = PopFrame]_vars

\* The role query of the first application failed; its sibling was then
\* processed and emitted, and the pass returned the list.
C19_Witness ==
  /\ world = "free"
  /\ cpc = "done"
  /\ asked[1].role = 1
  /\ ~asked[1].role_ok
  /\ asked[2].emitted = 1
  /\ cret = Some(Ok(found))
  /\ Len(found) = 1

\* C20: at the end of the pass every node whose role query succeeded has
\* been asked for its children, and each child it reported has been visited
\* unless a bound turned it away, whether or not the node was emitted.
C20_ChildrenVisitedRegardless ==
  cpc = "done"
    => \A n \in DOMAIN asked :
         asked[n].role_ok
         => /\ asked[n].children = 1
            /\ \A k \in Range(asked[n].kids) :
                 \/ k \in visited
                 \/ asked[n].depth + 1 > MAX_DEPTH
                 \/ Len(found) >= MAX_ELEMENTS

\* A node whose box was asked for and not accepted was not emitted, and its
\* child was visited and emitted.
C20_Witness ==
  /\ cpc = "done"
  /\ \E n \in DOMAIN asked :
       /\ asked[n].role_ok
       /\ asked[n].extents = 1
       /\ asked[n].emitted = 0
       /\ \E k \in Range(asked[n].kids) :
            k # n /\ k \in visited /\ asked[k].emitted = 1

\* --------------------------------------------- properties: run_click_mode
\* C22: a discovery that finds nothing returns the empty list, also when the
\* query for the registry's children fails; the caller then reports it,
\* starts no selection session and dispatches no action.
C22_NothingFoundIsNoError ==
  /\ [](/\ (cpc = "done" /\ found = <<>> /\ clast.kind # "connect")
             => cret = Some(Ok(<<>>))
        /\ mpc \in {"assign", "select", "dispatch"} => mode_elements # <<>>
        /\ (mpc = "done" /\ reported)
             => /\ mode_ret = Some(Ok("()"))
                /\ hinted_elements = <<>>
                /\ mode_result = None
                /\ dispatched = <<>>)
  /\ [][/\ (registry_get_children /\ cpc' = "done") => cret' = Some(Ok(<<>>))
        /\ (check_empty /\ mode_elements = <<>>)
             => (reported' /\ mpc' = "done")]_vars

\* Discovery itself found nothing; run_click_mode reported it and returned
\* Ok without a session or an action.
C22_Witness ==
  /\ mpc = "done"
  /\ filter = None
  /\ reported
  /\ mode_ret = Some(Ok("()"))
  /\ dispatched = <<>>

\* ------------------------------------------------- properties: calls
\* The role tags the specification lists for the three predicates.
ListedActionable ==
  {"PushButton", "ToggleButton", "RadioButton", "CheckBox", "MenuItem", "Link",
   "Entry", "PasswordText", "ComboBox", "PageTab", "ListItem", "TreeItem",
   "Icon", "SpinButton", "Slider", "TableCell"}
ListedScrollable ==
  {"ScrollPane", "Viewport", "Panel", "DocumentFrame", "DocumentWeb",
   "Application", "Frame", "ScrollBar"}
ListedTextInput ==
  {"Entry", "PasswordText", "SpinButton", "ComboBox", "Terminal"}

\* C21 (as stated): each role predicate accepts exactly the listed role tags;
\* the scrollable one exactly scroll panes, viewports, panels, document
\* frames and web views, applications, frames and scrollbars.
C21_PredicatesAcceptListedRoles ==
  call.fn = "role_filter"
    => out = (call.role \in (CASE call.f = "clickable"  -> ListedActionable
                               [] call.f = "scrollable" -> ListedScrollable
                               [] call.f = "text"       -> ListedTextInput))

\* C21 (amended): each role predicate accepts exactly the listed role tags,
\* the scrollable one accepting fillers besides the listed ones.
C21_PredicatesAcceptListedRolesAndFiller ==
  call.fn = "role_filter"
    => out = (call.role \in (CASE call.f = "clickable"  -> ListedActionable
                               [] call.f = "scrollable" -> ListedScrollable \cup {"Filler"}
                               [] call.f = "text"       -> ListedTextInput))

\* The scrollable predicate was applied to a filler and accepted it.
C21_Witness ==
  /\ call = [fn |-> "role_filter", f |-> "scrollable", role |-> "Filler"]
  /\ out = TRUE

\* No character occurs twice in s.
IsDistinct(s) == \A i, j \in DOMAIN s : i # j => s[i] # s[j]

\* C23: for an alphabet of k distinct characters generate_hints returns
\* exactly min(count, k + k^2 + k^3) labels, pairwise distinct.
C23_LabelCountAndUniqueness ==
  (call.fn = "generate_hints" /\ IsDistinct(call.chars))
    => LET k == Len(call.chars) IN
       /\ Len(out) = Min(call.count, k + k * k + k * k * k)
       /\ IsDistinct(out)

\* More labels were asked for than two characters can give: 14 were returned.
C23_Witness ==
  /\ call = [fn |-> "generate_hints", count |-> 15, chars |-> <<"h", "j">>]
  /\ Len(out) = 14

\* The properties of a hinted list the claim C24 states, for its first n
\* elements.
PairsInOrder(n) ==
  \A i \in 1..n :
    /\ out[i].element = call.elements[i]
    /\ out[i].hint = generate_hints(Len(call.elements), call.chars)[i]
    /\ out[i].hint # <<>>
    /\ Range(out[i].hint) \subseteq Range(call.chars)
    /\ \A j \in 1..n : j # i => out[j].hint # out[i].hint

\* C24 (as stated): for every list of N elements and every non-empty
\* alphabet of distinct characters assign_hints returns one HintedElement per
\* element, in order, the i-th with the i-th label of generate_hints.
C24_OneHintPerElement ==
  (call.fn = "assign_hints" /\ call.chars # <<>> /\ IsDistinct(call.chars))
    => /\ Len(out) = Len(call.elements)
       /\ PairsInOrder(Len(call.elements))

\* C24 (amended): the same for the first min(N, k + k^2 + k^3) elements,
\* which are the only ones hinted.
C24_OneHintPerElementUpToCapacity ==
  (call.fn = "assign_hints" /\ call.chars # <<>> /\ IsDistinct(call.chars))
    => LET k == Len(call.chars)
           n == Min(Len(call.elements), k + k * k + k * k * k)
       IN /\ Len(out) = n
          /\ Len(out) <= Len(call.elements)
          /\ PairsInOrder(n)

\* Six elements in descending order were hinted h, j, hh, hj, jh, jj.
C24_Witness ==
  /\ call = [fn |-> "assign_hints", elements |-> <<6, 5, 4, 3, 2, 1>>,
             chars |-> <<"h", "j">>]
  /\ Len(out) = 6
  /\ out[1] = [hint |-> <<"h">>, element |-> 6]
  /\ out[6] = [hint |-> <<"j", "j">>, element |-> 1]

\* C25 (as stated): assign_hints(elements, "") yields no HintedElement.
C25_EmptyAlphabetAssignsNothing ==
  (call.fn = "assign_hints" /\ call.chars = <<>>) => out = <<>>

\* C25 (amended): assign_hints(elements, "") hints every element, in order,
\* with the labels of the default alphabet.
C25_EmptyAlphabetFallsBackToDefault ==
  (call.fn = "assign_hints" /\ call.chars = <<>>)
    => /\ Len(out) = Len(call.elements)
       /\ \A i \in DOMAIN out :
            /\ out[i].element = call.elements[i]
            /\ i <= 26 => out[i].hint = <<DEFAULT_HINT_CHARS[i]>>
            /\ i > 26 => (Len(out[i].hint) = 2 /\ out[i].hint[1] = "a")

\* Three elements and the empty alphabet: labels a, s, d.
C25_Witness ==
  /\ call = [fn |-> "assign_hints", elements |-> <<1, 2, 3>>, chars |-> <<>>]
  /\ Len(out) = 3
  /\ out[3].hint = <<"d">>

\* C26: generate_hints returns the empty sequence when count is 0 and when
\* the alphabet is empty.
C26_DegenerateInputsGiveNoLabels ==
  (call.fn = "generate_hints" /\ (call.count = 0 \/ call.chars = <<>>))
    => out = <<>>

\* generate_hints was applied to count 0 with a two-character alphabet.
C26_Witness ==
  /\ call = [fn |-> "generate_hints", count |-> 0, chars |-> <<"h", "j">>]
  /\ out = <<>>

\* C27: for count <= k generate_hints returns the first count alphabet
\* characters, each as a one-character label, in alphabet order.
C27_SinglesInAlphabetOrder ==
  (/\ call.fn = "generate_hints"
   /\ IsDistinct(call.chars)
   /\ call.count <= Len(call.chars))
    => /\ Len(out) = call.count
       /\ \A i \in 1..call.count : out[i] = <<call.chars[i]>>

\* Two labels over the alphabet j, h: "j" then "h".
C27_Witness ==
  /\ call = [fn |-> "generate_hints", count |-> 2, chars |-> <<"j", "h">>]
  /\ out = << <<"j">>, <<"h">> >>

\* C28 (as stated): for count > k the first k results are the one-character
\* labels in alphabet order and the result at index k is alphabet[0]
\* followed by alphabet[1].
C28_FirstDoubleIsFirstTwoChars ==
  (/\ call.fn = "generate_hints"
   /\ IsDistinct(call.chars)
   /\ Len(call.chars) >= 2
   /\ call.count > Len(call.chars))
    => LET k == Len(call.chars) IN
       /\ \A i \in 1..k : out[i] = <<call.chars[i]>>
       /\ out[k + 1] = <<call.chars[1], call.chars[2]>>

\* C28 (amended): for count > k >= 1 the first k results are the
\* one-character labels in alphabet order and the result at index k is
\* alphabet[0] followed by alphabet[0].
C28_FirstDoubleIsFirstCharTwice ==
  (/\ call.fn = "generate_hints"
   /\ IsDistinct(call.chars)
   /\ Len(call.chars) >= 1
   /\ call.count > Len(call.chars))
    => LET k == Len(call.chars) IN
       /\ \A i \in 1..k : out[i] = <<call.chars[i]>>
       /\ out[k + 1] = <<call.chars[1], call.chars[1]>>

\* Three labels over the alphabet h, j: h, j, hh.
C28_Witness ==
  /\ call = [fn |-> "generate_hints", count |-> 3, chars |-> <<"h", "j">>]
  /\ out = << <<"h">>, <<"j">>, <<"h", "h">> >>

\* C29: for count > k the label at index k + i*k + j (0 <= i, j < k, counted
\* from 0) is alphabet[i] followed by alphabet[j], and no three-character
\* label comes before all k^2 two-character labels.
C29_RowMajorDoubles ==
  (call.fn = "generate_hints" /\ call.count > Len(call.chars))
    => LET k == Len(call.chars) IN
       /\ \A i, j \in 0..(k - 1) :
            (k + i * k + j) < Len(out)
            => out[k + i * k + j + 1] = <<call.chars[i + 1], call.chars[j + 1]>>
       /\ \A n \in DOMAIN out : Len(out[n]) = 3 => n > k + k * k

\* Seven labels over h, j: then hh, hj, jh, jj and the first triple.
C29_Witness ==
  /\ call = [fn |-> "generate_hints", count |-> 7, chars |-> <<"h", "j">>]
  /\ out[3] = <<"h", "h">>
  /\ out[4] = <<"h", "j">>
  /\ out[5] = <<"j", "h">>
  /\ out[7] = <<"h", "h", "h">>

\* The positions of the elements whose label starts with the lower-cased
\* prefix of the call.
Matching ==
  {i \in DOMAIN call.elements :
     LET label == call.elements[i].hint
         p     == call.prefix
     IN /\ Len(p) <= Len(label)
        /\ \A n \in DOMAIN p : label[n] = char_to_lowercase(p[n])}

\* C30: filter_by_prefix returns exactly the hinted elements whose label
\* starts with the lower-cased prefix, in their original order; all of them
\* for the empty prefix.
C30_FilterKeepsMatchingInOrder ==
  call.fn = "filter_by_prefix"
    => /\ Len(out) = Cardinality(Matching)
       /\ \A m \in DOMAIN out :
            \E i \in Matching :
              /\ Cardinality({j \in Matching : j <= i}) = m
              /\ out[m] = call.elements[i]
       /\ call.prefix = <<>> => out = call.elements

\* The prefix "H" kept the labels h, hh, hj of h, j, hh, hj, jh.
C30_Witness ==
  /\ call.fn = "filter_by_prefix"
  /\ call.prefix = <<"H">>
  /\ Len(call.elements) = 5
  /\ Len(out) = 3
  /\ out[3].hint = <<"h", "j">>

\* The positions of the elements of the call whose label starts with p,
\* compared character by character as given.
LabelsWith(p) ==
  {i \in DOMAIN call.elements :
     LET label == call.elements[i].hint
     IN /\ Len(p) <= Len(label)
        /\ \A n \in DOMAIN p : label[n] = p[n]}

\* The lower-case form of the prefix of the call.
LoweredPrefix == [n \in DOMAIN call.prefix |-> char_to_lowercase(call.prefix[n])]

\* What C31 states of a call of find_exact_match, q being the query compared.
ExactMatchContract(q, distinct_needed) ==
  LET S == LabelsWith(q) IN
  /\ IsSome(out) <=> (Cardinality(S) = 1 /\ \A i \in S : call.elements[i].hint = q)
  /\ IsSome(out) => \E i \in S : Unwrap(out) = call.elements[i]
  /\ call.prefix = <<>> => out = None
  /\ (/\ \A i \in DOMAIN call.elements : Len(call.elements[i].hint) = 1
      /\ distinct_needed =>
            \A i, j \in DOMAIN call.elements :
              i # j => call.elements[i].hint # call.elements[j].hint
      /\ \E i \in DOMAIN call.elements : call.elements[i].hint = q)
     => IsSome(out)

\* C31 (as stated): find_exact_match(elements, q) returns an element exactly
\* when one element's label alone has q as a prefix and that label equals q,
\* and then that element; none for the empty query, some for each label of a
\* batch whose labels are all one character.
C31_ExactIffSoleLabelEqualsQuery ==
  call.fn = "find_exact_match" => ExactMatchContract(call.prefix, FALSE)

\* C31 (amended): the same with q compared in its lower-case form, and some
\* for each label of a batch of pairwise distinct one-character labels.
C31_ExactIffSoleLabelEqualsLoweredQuery ==
  call.fn = "find_exact_match" => ExactMatchContract(LoweredPrefix, TRUE)

\* The query "H" on the labels h, j returned the element labelled h.
C31_Witness ==
  /\ call.fn = "find_exact_match"
  /\ call.prefix = <<"H">>
  /\ Len(call.elements) = 2
  /\ call.elements[2].hint = <<"j">>
  /\ out = Some([hint |-> <<"h">>, element |-> 1])

\* What C32 states of a call of find_unique_match, q being the query compared.
UniqueMatchContract(q) ==
  LET S == LabelsWith(q) IN
  /\ IsSome(out) <=> Cardinality(S) = 1
  /\ IsSome(out) => \E i \in S : Unwrap(out) = call.elements[i]

\* C32 (as stated): find_unique_match(elements, q) returns an element exactly
\* when one element's label alone has q as a prefix, whether or not the label
\* equals q, and then that element.
C32_UniqueIffSoleLabelWithQuery ==
  call.fn = "find_unique_match" => UniqueMatchContract(call.prefix)

\* C32 (amended): the same with q compared in its lower-case form.
C32_UniqueIffSoleLabelWithLoweredQuery ==
  call.fn = "find_unique_match" => UniqueMatchContract(LoweredPrefix)

\* The query "hH" returned the only element whose label starts with hh.
C32_Witness ==
  /\ call.fn = "find_unique_match"
  /\ call.prefix = <<"h", "H">>
  /\ IsSome(out)
  /\ Unwrap(out).hint = <<"h", "h">>

\* ------------------------------------ properties: the dispatched action
\* The action an injection function performs.
ActionOfFn(fn) ==
  CASE fn = "click_at"        -> "Click"
    [] fn = "right_click_at"  -> "RightClick"
    [] fn = "middle_click_at" -> "MiddleClick"
    [] fn = "scroll_at"       -> "Scroll"

\* C33: after Selected(e, override) exactly one action is dispatched, at the
\* centre of e's box, the override when there is one and the invoked mode's
\* action otherwise; after Cancelled, and before the outcome, none is.
C33_DispatchIsOverrideOrModeAction ==
  /\ mpc # "done" => dispatched = <<>>
  /\ (mpc = "done" /\ mode_result = None) => dispatched = <<>>
  /\ (mpc = "done" /\ mode_result # None)
       => LET res == Unwrap(mode_result) IN
          IF IsSome(res)
          THEN LET e  == Unwrap(res)[1].element
                   ov == Unwrap(res)[2]
               IN /\ Len(dispatched) = 1
                  /\ dispatched[1].x = e.x + (e.width \div 2)
                  /\ dispatched[1].y = e.y + (e.height \div 2)
                  /\ ActionOfFn(dispatched[1].fn) =
                       (IF IsSome(ov) THEN Unwrap(ov) ELSE action)
          ELSE dispatched = <<>>

\* ------------------------------------ properties: the selection session
\* C34: every element of a labeled set made from an alphabet of distinct
\* typable characters is selected by some sequence of character, backspace
\* and Enter events, with auto-select on or off, also when there are more
\* elements than characters.
C34_EveryElementSelectable ==
  call.fn = "run_overlay"
    => \A i \in DOMAIN call.elements : call.elements[i] \in out

\* b is a proper prefix of the label.
ProperPrefix(b, label) ==
  /\ Len(b) < Len(label)
  /\ \A n \in DOMAIN b : label[n] = b[n]

\* C35: with auto-select enabled find_exact_match of the buffer is none in
\* every reachable Active state, and a confirm in an Active state selects
\* only what find_unique_match yields, the buffer being a proper prefix of
\* the selected label.
C35_ActiveBufferHasNoExactMatch ==
  /\ []((auto_select /\ Active) => find_exact_match(elements, input_buffer) = None)
  /\ [][(auto_select /\ Active /\ press_key("Return") /\ result' # None)
         => /\ Unwrap(result').tag = "Selected"
            /\ find_unique_match(elements, input_buffer) = Some(Unwrap(result').elem)
            /\ ProperPrefix(input_buffer, Unwrap(result').elem.hint)]_vars

\* With auto-select on, Enter ended an Active session: it selected the only
\* element matching the buffer, whose label is longer than the buffer.
C35_Witness ==
  /\ auto_select
  /\ last = Event("press_key", "Return")
  /\ JustEnded
  /\ result # None
  /\ Unwrap(result).tag = "Selected"
  /\ first = result
  /\ Len(input_buffer) < Len(Unwrap(result).elem.hint)

\* The label starts with the buffer b.
LabelStartsWith(label, b) ==
  /\ Len(b) <= Len(label)
  /\ \A n \in DOMAIN b : label[n] = b[n]

\* This step writes a Selected outcome into the result cell: the result
\* changes to one, or select_element is called with the one already there.
RecordsSelected ==
  /\ result' # None
  /\ Unwrap(result').tag = "Selected"
  /\ \/ result' # result
     \/ press_key("Return") /\ IsSome(ReturnSelected)
     \/ \E key \in Keysyms :
          /\ CharStep(key)
          /\ auto_select
          /\ IsSome(find_exact_match(elements, input_buffer'))

\* C36: whenever Selected(e, _) is recorded, e is an element of the labeled
\* set, its label starts with the buffer held at that moment, and no other
\* element's label starts with that buffer.
C36_SelectedIsSoleMatch ==
  [][RecordsSelected
       => LET e == Unwrap(result').elem IN
          /\ \E i \in DOMAIN elements : elements[i] = e
          /\ LabelStartsWith(e.hint, input_buffer')
          /\ \A j \in DOMAIN elements :
               elements[j] # e => ~LabelStartsWith(elements[j].hint, input_buffer')]_vars

\* Of four elements labelled a, b, aa, ab the one labelled ab was selected
\* by auto-select when the second character was typed.
C36_Witness ==
  /\ auto_select
  /\ Len(elements) = 4
  /\ last = Event("press_key", "b")
  /\ JustEnded
  /\ input_buffer = <<"a", "b">>
  /\ result = Some(Selected(elements[4], None))

\* ------------------------------------ properties: discovery, completeness
\* The trees of the model whose answers are a function of the node.
FixedWorlds == {"chain", "wide", "shortcut"}

\* The answer a node of a fixed tree gives.
TheAnswer(answers) == CHOOSE a \in answers : TRUE

\* The nodes of the tree w that a child path of at most d steps reaches
\* from the nodes S.
RECURSIVE WithinPath(_, _, _)
WithinPath(w, S, d) ==
  IF d = 0 THEN S
  ELSE WithinPath(w,
                  S \cup UNION {Range(Unwrap(TheAnswer(ChildrenAnswers(w, n)))) : n \in S},
                  d - 1)

\* C37: when no query fails and fewer than 500 elements are found, every
\* node that a child path of at most 20 steps reaches from an application,
\* whose role satisfies the predicate and whose box is valid, has been
\* emitted when the pass returns, also when the node or one of its ancestors
\* is met first along a longer path.
C37_CompleteWithinBounds ==
  (/\ cpc = "done"
   /\ cret = Some(Ok(found))
   /\ world \in FixedWorlds
   /\ Len(found) < 500)
    => LET top == Range(Unwrap(TheAnswer(RegistryAnswers(world)))) IN
       \A n \in WithinPath(world, top, 20) :
         LET role == Unwrap(TheAnswer(RoleAnswers(world, n)))
             b    == Unwrap(TheAnswer(ExtentsAnswers(world, n)))
         IN (/\ role \in ActionableRoles
             /\ b.x >= 0 /\ b.y >= 0
             /\ 0 < b.width /\ b.width < 3000
             /\ 0 < b.height /\ b.height < 2000)
            => asked[n].emitted >= 1

\* ------------------------------------ properties: pointer injection
\* The order C38 states for the clicks.
StatedClickOrder ==
  (IF hyprland THEN <<"hyprctl">> ELSE <<>>) \o <<"ydotool", "wlrctl", "dotool", "wtype">>

\* C38: click_at, right_click_at and middle_click_at try hyprctl (only under
\* Hyprland), ydotool, wlrctl, dotool, wtype in this order; the first method
\* that succeeds ends the call with success, no later method being tried;
\* the call returns an error only when every method was tried and failed.
C38_ClickMethodsInOrder ==
  inj.fn \in {"click_at", "right_click_at", "middle_click_at"}
    => /\ Len(tried) <= Len(StatedClickOrder)
       /\ \A i \in DOMAIN tried :
            /\ tried[i].method = StatedClickOrder[i]
            /\ tried[i].ok => (i = Len(tried) /\ inj_ret = Some(Ok("()")))
       /\ inj_ret # None <=> inj_pc = "done"
       /\ inj_ret = Some(Ok("()")) => (tried # <<>> /\ tried[Len(tried)].ok)
       /\ (inj_ret # None /\ inj_ret # Some(Ok("()")))
            => /\ Unwrap(inj_ret).tag = "Err"
               /\ Len(tried) = Len(StatedClickOrder)
               /\ \A i \in DOMAIN tried : ~tried[i].ok

\* Under Hyprland a right click failed with hyprctl and ydotool and
\* succeeded with wlrctl; dotool and wtype were not tried.
C38_Witness ==
  /\ inj.fn = "right_click_at"
  /\ hyprland
  /\ tried = <<[method |-> "hyprctl", ok |-> FALSE],
               [method |-> "ydotool", ok |-> FALSE],
               [method |-> "wlrctl", ok |-> TRUE]>>
  /\ inj_pc = "done"
  /\ inj_ret = Some(Ok("()"))

\* ----------------------------------------------- properties: scroll mode
\* The keys that scroll by one step, with their direction.
StepKeys == {"h", "j", "k", "l", "Left", "Down", "Up", "Right"}
DirectionOf(key) ==
  IF key \in {"h", "Left"} THEN "Left"
  ELSE IF key \in {"j", "Down"} THEN "Down"
  ELSE IF key \in {"k", "Up"} THEN "Up"
  ELSE "Right"

\* A step in which the session handles an event that is neither Escape, q
\* nor the closing of the surface.
OtherScrollEvent ==
  \/ \E key \in ScrollKeysyms \ {"Escape", "q"} : scroll_press_key(key)
  \/ \E m \in ModifierStates : scroll_update_modifiers(m)

\* The parts of C39 that do not say how a session ends: no key press but
\* Escape and q, no modifier update and no failed injection sets the exit
\* flag or ends the session; the flag is set only by Escape, q and closed;
\* the target never changes; each h/j/k/l or arrow press adds exactly one
\* request at the target, with page_step under Control, else scroll_step.
ScrollSessionSteps ==
  /\ [][OtherScrollEvent => (scroll_exit' = scroll_exit /\ scroll_pc' = scroll_pc)]_vars
  /\ [][(scroll_exit' # scroll_exit)
          => (scroll_press_key("Escape") \/ scroll_press_key("q") \/ scroll_closed)]_vars
  /\ [][target' = target]_vars
  /\ [][\A key \in StepKeys :
          scroll_press_key(key)
            => /\ requests' = requests + 1
               /\ IsSome(scroll_last'.scrolled)
               /\ Unwrap(scroll_last'.scrolled).request =
                    [x |-> target[1], y |-> target[2], direction |-> DirectionOf(key),
                     amount |-> IF scroll_modifiers.ctrl THEN steps.page_step
                                ELSE steps.scroll_step]]_vars

\* C39 as stated: a scroll session stays active across key presses, modifier
\* updates and failed scroll injections and ends only when Escape or q was
\* pressed or the surface was closed (the exit flag is set whenever it has
\* ended); its target never changes; each h/j/k/l or arrow press issues one
\* request at the target with the page step under Control, else the scroll step.
C39_EndsOnlyOnExitKeyOrClose ==
  /\ [](scroll_pc = "done" => scroll_exit)
  /\ ScrollSessionSteps

\* C39, amended: as above, but a session also ends, with an error, when the
\* Wayland dispatch fails.
C39_EndsOnlyOnExitOrDispatchFailure ==
  /\ [](scroll_pc = "done"
          => \/ scroll_exit /\ scroll_ret = Some(Ok("()"))
             \/ scroll_ret = Some(Err("Wayland dispatch failed")))
  /\ ScrollSessionSteps

\* With Control held j was pressed for the second request of the session and
\* the injection failed: the session is still active and the request asked
\* for page_step at the target.
C39_Witness ==
  /\ scroll_last = ScrollEvent("press_key", "j",
                      Some([request |-> [x |-> target[1], y |-> target[2],
                                         direction |-> "Down",
                                         amount |-> steps.page_step],
                            ok |-> FALSE]))
  /\ scroll_modifiers.ctrl
  /\ requests = 2
  /\ scroll_pc = "dispatch"
  /\ ~scroll_exit

====
